---- MODULE Spec2Model ----
(***************************************************************************)
(* Model of the ReAct agent loop of tiny-agents (src/agent).               *)
(*                                                                         *)
(* Text is a sequence of tokens.  The characters the parsers look at one   *)
(* by one are tokens of their own (space, newline, the JSON brackets, the  *)
(* double quote, the backslash, comma, colon); the four ReAct keywords     *)
(* with their colon ("Final:", "Action:", "Thought:", "Action Input:")     *)
(* stand for any spelling the case-insensitive recognisers accept; every   *)
(* other token is a run of characters without whitespace.                  *)
(* The Chinese messages of the source are written in ASCII here.           *)
(***************************************************************************)
EXTENDS Integers, Sequences, FiniteSets, TLC

\* ------------------------------------------------------------------ bounds
MaxSteps == 3
MaxToolCalls == 2
MaxLines == 2
MaxRegisterCalls == 3
NumTools == 3
MaxRecall == 2
MaxTopK == 3
MaxTopN == 3
MaxRecallK == 6
MaxDbs == 3
MaxHits == 2
MaxDocs == 2
MaxChunks == 2

\* -------------------------------------------------------- program constants
DefaultTopk == 5
DefaultLlmTimeoutSec == 180
RrfK == 60
MinChars == 120

\* ------------------------------------------------------------------ tokens
SP == " "
NL == "\n"
QUOTE == "\""
BSL == "\\"
KwFinal == "Final:"
KwAction == "Action:"
KwThought == "Thought:"
KwInput == "Action Input:"

IsWs(t) == t \in {SP, NL}

Max(a, b) == IF a >= b THEN a ELSE b
Min(a, b) == IF a <= b THEN a ELSE b

\* str.strip(): drop leading and trailing whitespace.
Strip(s) ==
    LET idx == {i \in 1..Len(s) : ~IsWs(s[i])}
    IN  IF idx = {} THEN <<>>
        ELSE LET lo == CHOOSE i \in idx : \A j \in idx : i <= j
                 hi == CHOOSE i \in idx : \A j \in idx : i >= j
             IN  SubSeq(s, lo, hi)

\* str.find(ch, start) on 1-based positions; 0 when absent.
Find(text, ch, start) ==
    LET idx == {i \in start..Len(text) : text[i] = ch}
    IN  IF idx = {} THEN 0 ELSE CHOOSE i \in idx : \A j \in idx : i <= j

\* "\n".join(lines)
RECURSIVE JoinLines(_)
JoinLines(lines) ==
    IF Len(lines) = 0 THEN <<>>
    ELSE IF Len(lines) = 1 THEN lines[1]
    ELSE lines[1] \o <<NL>> \o JoinLines(Tail(lines))

\* s1 is a substring of s2
Contains(s2, s1) ==
    \E i \in 0..(Len(s2) - Len(s1)) : SubSeq(s2, i + 1, i + Len(s1)) = s1

\* ------------------------------------------------- the recognisers (regex)
\* (?m)^\s*KEYWORD : the keyword at position i is preceded, back to the start
\* of its line, by whitespace only.
AnchoredAt(text, i) ==
    \A k \in 1..(i - 1) :
        (\A m \in k..(i - 1) : text[m] # NL) => IsWs(text[k])

FirstIn(idx) == IF idx = {} THEN 0 ELSE CHOOSE i \in idx : \A j \in idx : i <= j

\* First non-whitespace position after i; 0 when the rest is whitespace.
NextNonWs(text, i) == FirstIn({j \in (i + 1)..Len(text) : ~IsWs(text[j])})

\* Last position of the line that holds position j.
LineEnd(text, j) ==
    LET nl == Find(text, NL, j) IN IF nl = 0 THEN Len(text) ELSE nl - 1

\* A recogniser that lets an earlier Action line win over Final.
FinalMatchUnlessActionFirst(text) ==
    LET f == FirstIn({i \in 1..Len(text) :
                        text[i] = KwFinal /\ AnchoredAt(text, i) /\ i < Len(text)})
    IN  IF \E k \in 1..(f - 1) : text[k] = KwAction /\ AnchoredAt(text, k) THEN 0 ELSE f
\* _RE_FINAL.search: ^\s*Final\s*:\s*(.+)\s*$ with DOTALL.  ".+" needs one
\* character after the colon and, being greedy and matching newlines, runs
\* to the end of the text.  0 when there is no match.
FinalMatch(text) ==
    FirstIn({i \in 1..Len(text) :
                text[i] = KwFinal /\ AnchoredAt(text, i) /\ i < Len(text)})

\* group(1).strip() of a line that ends at its line break.
FinalGroupLineOnly(text, i) ==
    LET j == NextNonWs(text, i)
    IN  IF j = 0 THEN <<>> ELSE Strip(SubSeq(text, j, LineEnd(text, j)))
\* group(1).strip() of a _RE_FINAL match at i.
FinalGroup(text, i) == Strip(SubSeq(text, i + 1, Len(text)))

\* _RE_THOUGHT / _RE_ACTION .search then group(1).strip():
\* ^\s*KEYWORD\s*:\s*(.+)\s*$ without DOTALL.  "\s*" after the colon also
\* runs over line breaks, ".+" then takes the rest of the line it lands on.
\* <<>> when there is no match or the group is blank.
LineGroup(text, kw) ==
    LET i == FirstIn({k \in 1..Len(text) : text[k] = kw /\ AnchoredAt(text, k)})
        j == IF i = 0 THEN 0 ELSE NextNonWs(text, i)
    IN  IF j = 0 THEN <<>> ELSE Strip(SubSeq(text, j, LineEnd(text, j)))

\* re.search(r"(?mi)^\s*Action Input\s*:\s*", text).end(), as the 1-based
\* position of the first token after the match; 0 when there is no match.
InputMatchEnd(text) ==
    LET i == FirstIn({k \in 1..Len(text) : text[k] = KwInput /\ AnchoredAt(text, k)})
        j == IF i = 0 THEN 0 ELSE NextNonWs(text, i)
    IN  IF i = 0 THEN 0 ELSE IF j = 0 THEN Len(text) + 1 ELSE j

\* ------------------------------------------------ _extract_first_json_value
\* The scan of lines 56-85: depth of open_ch/close_ch outside string
\* literals, a backslash inside a literal skips the next character.
RECURSIVE ScanJson(_, _, _, _, _, _, _, _)
ScanJson(text, begin, i, depth, in_str, esc, open_ch, close_ch) ==
    IF i > Len(text) THEN <<>>
    ELSE LET ch == text[i] IN
         IF in_str THEN
              IF esc THEN ScanJson(text, begin, i + 1, depth, TRUE, FALSE, open_ch, close_ch)
              ELSE IF ch = BSL THEN ScanJson(text, begin, i + 1, depth, TRUE, TRUE, open_ch, close_ch)
              ELSE IF ch = QUOTE THEN ScanJson(text, begin, i + 1, depth, FALSE, FALSE, open_ch, close_ch)
              ELSE ScanJson(text, begin, i + 1, depth, TRUE, FALSE, open_ch, close_ch)
         ELSE IF ch = QUOTE THEN ScanJson(text, begin, i + 1, depth, TRUE, esc, open_ch, close_ch)
         ELSE IF ch = open_ch THEN ScanJson(text, begin, i + 1, depth + 1, FALSE, esc, open_ch, close_ch)
         ELSE IF ch = close_ch THEN
              IF depth - 1 = 0 THEN Strip(SubSeq(text, begin, i))
              ELSE ScanJson(text, begin, i + 1, depth - 1, FALSE, esc, open_ch, close_ch)
         ELSE ScanJson(text, begin, i + 1, depth, FALSE, esc, open_ch, close_ch)

\* An extractor that cuts at the first closing brace after the first opening
\* one.
ExtractToFirstClose(text, start) ==
    LET brace == IF Len(text) = 0 THEN 0 ELSE Find(text, "{", Max(1, start))
        close == IF brace = 0 THEN 0 ELSE Find(text, "}", brace)
    IN  IF close = 0 THEN <<>> ELSE SubSeq(text, brace, close)
\* start is a 1-based position (possibly Len(text)+1); <<>> is Python's "".
ExtractFirstJsonValue(text, start) ==
    IF Len(text) = 0 THEN <<>>
    ELSE LET brace == Find(text, "{", Max(1, start))
             bracket == Find(text, "[", Max(1, start))
         IN  IF brace = 0 /\ bracket = 0 THEN <<>>
             ELSE IF brace = 0 THEN ScanJson(text, bracket, bracket, 0, FALSE, FALSE, "[", "]")
             ELSE IF bracket = 0 THEN ScanJson(text, brace, brace, 0, FALSE, FALSE, "{", "}")
             ELSE IF Min(brace, bracket) = brace
                  THEN ScanJson(text, brace, brace, 0, FALSE, FALSE, "{", "}")
                  ELSE ScanJson(text, bracket, bracket, 0, FALSE, FALSE, "[", "]")

\* ------------------------------------------------------------- json.loads
\* A JSON reader over tokens.  Every Parse* gives the position after the
\* construct it read, 0 when the text is not JSON there.  Scalars other than
\* strings are single tokens; of the escapes only \" and \\ are in the token
\* alphabet.
JsonLiterals == {"1", "3", "5", "true", "null"}

SkipWs(text, i) ==
    LET idx == {j \in i..Len(text) : ~IsWs(text[j])}
    IN  IF idx = {} THEN Len(text) + 1 ELSE CHOOSE j \in idx : \A k \in idx : j <= k

At(text, i) == IF i >= 1 /\ i <= Len(text) THEN text[i] ELSE ""

RECURSIVE StrEnd(_, _)
StrEnd(text, j) ==
    IF j > Len(text) \/ text[j] = NL THEN 0
    ELSE IF text[j] = QUOTE THEN j + 1
    ELSE IF text[j] = BSL
         THEN IF At(text, j + 1) \in {QUOTE, BSL} THEN StrEnd(text, j + 2) ELSE 0
    ELSE StrEnd(text, j + 1)

RECURSIVE ParseValue(_, _)
RECURSIVE ParseMembers(_, _)
RECURSIVE ParseElements(_, _)
ParseValue(text, i) ==
    IF At(text, i) = QUOTE THEN StrEnd(text, i + 1)
    ELSE IF At(text, i) \in JsonLiterals THEN i + 1
    ELSE IF At(text, i) = "{"
         THEN IF At(text, SkipWs(text, i + 1)) = "}" THEN SkipWs(text, i + 1) + 1
              ELSE ParseMembers(text, SkipWs(text, i + 1))
    ELSE IF At(text, i) = "["
         THEN IF At(text, SkipWs(text, i + 1)) = "]" THEN SkipWs(text, i + 1) + 1
              ELSE ParseElements(text, SkipWs(text, i + 1))
    ELSE 0
ParseMembers(text, j) ==
    LET ke == IF At(text, j) = QUOTE THEN StrEnd(text, j + 1) ELSE 0
        c  == IF ke = 0 THEN 0 ELSE SkipWs(text, ke)
        ve == IF c = 0 \/ At(text, c) # ":" THEN 0 ELSE ParseValue(text, SkipWs(text, c + 1))
        n  == IF ve = 0 THEN 0 ELSE SkipWs(text, ve)
    IN  IF n = 0 THEN 0
        ELSE IF At(text, n) = "}" THEN n + 1
        ELSE IF At(text, n) = "," THEN ParseMembers(text, SkipWs(text, n + 1))
        ELSE 0
ParseElements(text, j) ==
    LET ve == ParseValue(text, j)
        n  == IF ve = 0 THEN 0 ELSE SkipWs(text, ve)
    IN  IF n = 0 THEN 0
        ELSE IF At(text, n) = "]" THEN n + 1
        ELSE IF At(text, n) = "," THEN ParseElements(text, SkipWs(text, n + 1))
        ELSE 0

\* A dict is the sequence of its <<key, value>> pairs in insertion order;
\* key and value are the tokens of their JSON text.
DictHas(d, k) == \E i \in 1..Len(d) : d[i][1] = k
DictSet(d, k, v) ==
    IF DictHas(d, k)
    THEN [i \in 1..Len(d) |-> IF d[i][1] = k THEN <<k, v>> ELSE d[i]]
    ELSE Append(d, <<k, v>>)
DictGet(d, k) ==
    IF DictHas(d, k) THEN (d[CHOOSE i \in 1..Len(d) : d[i][1] = k])[2] ELSE <<>>

\* The members of the object whose first key starts at j (text is valid JSON).
RECURSIVE MembersFrom(_, _, _)
MembersFrom(text, j, acc) ==
    LET ke == StrEnd(text, j + 1)
        c  == SkipWs(text, ke)
        vs == SkipWs(text, c + 1)
        ve == ParseValue(text, vs)
        n  == SkipWs(text, ve)
        d  == DictSet(acc, SubSeq(text, j, ke - 1), SubSeq(text, vs, ve - 1))
    IN  IF At(text, n) = "," THEN MembersFrom(text, SkipWs(text, n + 1), d) ELSE d

\* json.loads(raw): kind "dict" with its pairs, "other" for any other JSON
\* value, "error" when loads raises.
JsonLoads(raw) ==
    LET s == SkipWs(raw, 1)
        e == ParseValue(raw, s)
        valid == e # 0 /\ SkipWs(raw, e) = Len(raw) + 1
        first == SkipWs(raw, s + 1)
    IN  IF ~valid THEN [kind |-> "error", dict |-> <<>>]
        ELSE IF At(raw, s) # "{" THEN [kind |-> "other", dict |-> <<>>]
        ELSE IF At(raw, first) = "}" THEN [kind |-> "dict", dict |-> <<>>]
        ELSE [kind |-> "dict", dict |-> MembersFrom(raw, first, <<>>)]

\* json.dumps(d, ensure_ascii=False) of a dict: {"k": v, "k2": v2}
RECURSIVE DumpPairs(_)
DumpPairs(d) ==
    IF Len(d) = 0 THEN <<>>
    ELSE d[1][1] \o <<":", SP>> \o d[1][2]
         \o (IF Len(d) = 1 THEN <<>> ELSE <<",", SP>> \o DumpPairs(Tail(d)))
JsonDumps(d) == <<"{">> \o DumpPairs(d) \o <<"}">>

\* ------------------------------------------------------------ parse_react
\* ReActParseResult; action_input None is [none |-> TRUE].
NoInput == [none |-> TRUE, dict |-> <<>>]
EmptyResult(text) ==
    [thought |-> <<>>, action_name |-> <<>>, action_input |-> NoInput,
     final |-> <<>>, raw |-> text]

ParseActionInput(text) ==
    LET pos == InputMatchEnd(text)
        raw_json == IF pos = 0 THEN <<>> ELSE ExtractFirstJsonValue(text, pos)
        loaded == JsonLoads(raw_json)
    IN  IF pos = 0 \/ raw_json = <<>> \/ loaded.kind # "dict" THEN NoInput
        ELSE [none |-> FALSE, dict |-> loaded.dict]

parse_react(text) ==
    IF Len(text) = 0 THEN EmptyResult(text)
    ELSE IF FinalMatch(text) # 0
         THEN [EmptyResult(text) EXCEPT !.final = FinalGroup(text, FinalMatch(text))]
    ELSE [EmptyResult(text) EXCEPT
            !.thought = LineGroup(text, KwThought),
            !.action_name = LineGroup(text, KwAction),
            !.action_input = ParseActionInput(text)]

\* ----------------------------------------------------------------- messages
KwObservation == "Observation:"
\* react_agent.py:150  f"...LLM call timed out (>{llm_timeout_sec}s)"
TimeoutMsgNoSeconds(n) == <<"gen-failed:", SP, "LLM", SP, "call-timed-out(>", "0", "s)">>
TimeoutMsg(n) == <<"gen-failed:", SP, "LLM", SP, "call-timed-out(>", ToString(n), "s)">>
\* react_agent.py:190
BudgetMsg == <<"tool-call-limit-reached,answer-from-existing", SP, "Observation",
               SP, "as", SP, "Final.">>
\* react_agent.py:213
MaxStepsMsg == <<"max-steps-reached-without-Final.", SP, "narrow-the-question-or-raise-topk.">>

\* -------------------------------------------------------------------- tools
NameRag == <<"rag_search">>
NameOnline == <<"search_online">>
\* The registry after script/react_chat.py has registered both built-in tools.
RegisteredTools == {NameRag, NameOnline}

Str(w) == <<QUOTE, w, QUOTE>>
IsJsonString(v) == Len(v) >= 2 /\ v[1] = QUOTE
\* str(kwargs.get(key) or "").strip()
ArgText(args, key) ==
    LET v == DictGet(args, Str(key))
    IN  IF v \in {<<>>, <<"null">>} THEN <<>>
        ELSE IF IsJsonString(v) THEN Strip(SubSeq(v, 2, Len(v) - 1))
        ELSE v
\* int(kwargs.get("topk") or 5) raises for text that is no number
TopkIsInt(args) ==
    LET v == DictGet(args, Str("topk"))
    IN  \/ v \in {<<>>} \cup {<<l>> : l \in JsonLiterals}
        \/ IsJsonString(v) /\ Len(v) = 3 /\ v[2] \in {"1", "3", "5"}

Raise(cls, msg) == [raised |-> TRUE, cls |-> cls, err |-> msg, items |-> <<>>]
Return(items, err) == [raised |-> FALSE, cls |-> "", err |-> err, items |-> items]
Evidence == [text |-> <<"evidence", SP, "text">>, source |-> <<"law.pdf">>]

\* RAGSearchTool.run: the outcomes the call can have.  Retrieval itself
\* (HyDE generation, recall, rerank) is external: it returns items or raises.
RagRun(args) ==
    IF ArgText(args, "query") = <<>>
    THEN {Raise("ValueError", <<"rag_search.query", SP, "must-not-be-empty">>)}
    ELSE IF ~TopkIsInt(args)
    THEN {Raise("ValueError", <<"invalid", SP, "literal", SP, "for", SP, "int()">>)}
    ELSE IF ArgText(args, "db_name") \notin {<<"law">>, <<"case">>}
    THEN {Raise("UnboundLocalError", <<"local", SP, "variable", SP, "'reranked'", SP, "referenced",
                 SP, "before", SP, "assignment">>)}
    ELSE {Return(<<Evidence>>, <<>>), Return(<<>>, <<>>),
          Raise("RuntimeError", <<"search", SP, "failed">>)}

\* SearchOnlineTool.run: failures of the provider come back as a result with
\* an error field.
OnlineRun(args) ==
    IF ArgText(args, "query") = <<>>
    THEN {Raise("ValueError", <<"search_online.query", SP, "must-not-be-empty">>)}
    ELSE IF ~TopkIsInt(args)
    THEN {Raise("ValueError", <<"invalid", SP, "literal", SP, "for", SP, "int()">>)}
    ELSE {Return(<<>>, <<"SERPAPI_API_KEY", SP, "not-configured">>),
          Return(<<[text |-> <<"title">>, source |-> <<"online">>]>>, <<>>)}

\* ToolExecutor.execute(name, arguments): get, normalize_arguments, run.
\* str(KeyError(msg)) is the repr of msg, hence the quotes.
Execute(name, args) ==
    IF name \notin RegisteredTools
    THEN {Raise("KeyError", <<"'unregistered-tool:">> \o name \o <<"'">>)}
    ELSE IF name = NameRag THEN RagRun(args)
    ELSE OnlineRun(args)

\* format_observation_for_prompt for results whose items are plain passages.
RECURSIVE ItemLines(_, _)
ItemLines(items, rank) ==
    IF Len(items) = 0 THEN <<>>
    ELSE <<(<<"[", ToString(rank), "]", SP>> \o Strip(items[1].text)),
           (<<"source=">> \o items[1].source)>>
         \o ItemLines(Tail(items), rank + 1)
FormatObservation(items, err) ==
    Strip(JoinLines(
        (IF err # <<>> THEN <<(<<"error=">> \o err)>> ELSE <<>>)
        \o ItemLines(items, 1)
        \o (IF Len(items) = 0 /\ err = <<>> THEN <<(<<"(no-results)">>)>> ELSE <<>>)))

\* "except Exception" (react_agent.py:197): the classes the handler catches.
CatchesOnlyValueError(cls) == cls = "ValueError"
Catches(cls) == cls \in {"KeyError", "ValueError", "TypeError", "UnboundLocalError", "RuntimeError"}

\* ------------------------------------------------------------- the LLM
\* The lines the model under test may write; an output is up to MaxLines of
\* them joined by line breaks.
DbQuery == <<"{">> \o Str("query") \o <<":", SP>> \o Str("q") \o <<",", SP>>
           \o Str("db_name") \o <<":", SP>> \o Str("law") \o <<"}">>
LlmLines ==
    { <<SP>>,
      <<KwThought, SP, "think">>,
      <<KwAction, SP, "rag_search">>,
      <<KwAction, SP, "search_online">>,
      <<KwAction, SP, "no_such_tool">>,
      <<KwInput, SP>> \o DbQuery,
      <<KwFinal, SP, "answer">>,
      <<KwFinal>>,
      <<"so", SP, KwFinal, SP, "answer">> }
LlmOutputs ==
    { JoinLines(ls) : ls \in UNION { [1..n -> LlmLines] : n \in 0..MaxLines } }

\* Outputs that request rag_search with one Action Input text each: the JSON
\* objects of the parser tests (multi-line, code fence), nested values,
\* brackets and escapes inside string literals, and inputs that are absent,
\* unparseable, unbalanced or no object.
MultiLineQuery ==
    <<"{", NL, SP, SP>> \o Str("query") \o <<":", SP>> \o Str("q") \o <<",", NL, SP, SP>>
    \o Str("topk") \o <<":", SP, "3", NL, "}">>
ObjectInputs ==
    { <<SP>> \o DbQuery,
      <<NL>> \o MultiLineQuery,
      <<SP, "fence_json", NL>> \o MultiLineQuery \o <<NL, "fence">>,
      <<SP, "{">> \o Str("query") \o <<":", SP>> \o Str("q") \o <<",", SP>> \o Str("filter")
          \o <<":", SP, "{">> \o Str("tags") \o <<":", SP, "[", "1", ",", SP, "3", "]", "}", "}">>,
      <<SP, "{">> \o Str("query") \o <<":", SP, QUOTE, "}", "{", "]", "[", QUOTE, "}">>,
      <<SP, "{">> \o Str("query") \o <<":", SP, QUOTE, "a", BSL, QUOTE, "}", BSL, BSL, QUOTE, "}">>,
      <<SP, "{", "}">>,
      <<SP>> \o DbQuery \o <<SP, "{", "}">> }
OtherInputs ==
    { <<>>,
      <<SP, "{", "query", ":", SP, "q", "}">>,
      <<SP, "{">> \o Str("query") \o <<":", SP>> \o Str("q"),
      <<SP, "[", "1", ",", SP, "3", "]">>,
      <<SP>> \o Str("q"),
      <<SP, "[", "1", "]", SP>> \o DbQuery,
      <<SP, "{">> \o Str("query") \o <<":", SP, QUOTE, "q", "}">> }
InputOutputs ==
    { <<KwAction, SP, "rag_search", NL, KwInput>> \o t : t \in ObjectInputs \cup OtherInputs }
    \cup { <<KwAction, SP, "rag_search">>,
           <<KwThought, SP, "think", NL, KwAction, SP, "rag_search", NL, KwInput, NL>> \o MultiLineQuery,
           <<KwFinal, SP, "answer">> }
Question == <<"what", SP, "is", SP, "it?">>

\* render_prompt: the three slots of the template.
render_prompt_without_history(tools, question, history) ==
    [tools |-> Strip(tools), question |-> Strip(question), history |-> <<>>]
render_prompt(tools, question, history) ==
    [tools |-> Strip(tools), question |-> Strip(question),
     history |-> Strip(IF history = <<>> THEN <<SP>> ELSE history)]
\* format_tools_for_prompt, as the names in registration order.
ToolsTxt == NameRag \o <<NL, NL>> \o NameOnline

\* ------------------------------------------------------------------- state
VARIABLES
    cfg,              \* the arguments given to ReActAgent.__init__; llm is
                      \* the set of texts its generate may return
    max_steps,        \* self.max_steps
    max_tool_calls,   \* self.max_tool_calls
    default_topk,     \* self.default_topk
    llm_timeout_sec,  \* self.llm_timeout_sec
    pc,               \* where run is: "loop", "llm_wait", "shutdown_wait",
                      \* "parse", "done", "raised"
    step,             \* the loop variable of run
    history,          \* run's history string
    tool_call_count,  \* run's tool_call_count
    prompt,           \* the prompt of the latest LLM call
    worker,           \* the _call_llm worker: "idle", "running", "finished"
    worker_out,       \* what llm.generate returned on the worker
    llm_raw,          \* what _call_llm returned
    timed_out,        \* whether that return was the timeout branch
    model_out,        \* run's model_out
    parsed,           \* run's parsed: parse_react(model_out)
    result,           \* what run returned: [answer, history]
    executed,         \* log of the ToolExecutor.execute calls: the step, the
                      \* tool name, whether the call raised, its error text
    llm_calls,        \* number of llm.generate calls submitted
    tools,            \* ToolExecutor._tools: the registry, stripped name -> tool
    register_calls,   \* log of the register calls: the tool, whether it raised
    call,             \* the library function called and its arguments
    ret               \* what that call returned

agent == <<cfg, max_steps, max_tool_calls, default_topk, llm_timeout_sec, pc, step,
           history, tool_call_count, prompt, worker, worker_out, llm_raw, timed_out,
           model_out, parsed, result, executed, llm_calls>>
library == <<tools, register_calls, call, ret>>
vars == <<agent, library>>

config == <<cfg, max_steps, max_tool_calls, default_topk, llm_timeout_sec>>

\* ------------------------------------------------- ToolExecutor.register
EmptyRegistry == [n \in {} |-> n]
Registered(reg, name, tool) ==
    [n \in (DOMAIN reg) \cup {name} |-> IF n = name THEN tool ELSE reg[n]]
\* A register that lets a later tool take the name.
register_overwriting(reg, tool) ==
    IF Strip(tool.name) = <<>> THEN [tools |-> reg, raised |-> TRUE]
    ELSE [tools |-> Registered(reg, Strip(tool.name), tool), raised |-> FALSE]
\* register(tool): the registry afterwards and whether ValueError was raised.
register(reg, tool) ==
    IF Strip(tool.name) = <<>> THEN [tools |-> reg, raised |-> TRUE]
    ELSE IF Strip(tool.name) \in DOMAIN reg THEN [tools |-> reg, raised |-> TRUE]
    ELSE [tools |-> Registered(reg, Strip(tool.name), tool), raised |-> FALSE]
\* script/react_chat.py registers the two built-in tools.
ChatRegistry ==
    register(register(EmptyRegistry, [name |-> NameRag, id |-> 1]).tools,
             [name |-> NameOnline, id |-> 2]).tools
\* ------------------------------------------------------------- rrf_fuse
\* A recall item is the record of its id, its meta.doc_id and its text, ""
\* for a value that is missing or empty; a recall result is <<idx, item,
\* score>>.
\* _item_key
item_key(item) ==
    IF item.id # "" THEN <<"id", item.id>>
    ELSE IF item.doc_id # "" THEN <<"doc_id", item.doc_id>>
    ELSE <<"text", item.text>>

\* sorted(list, key=lambda x: x[2], reverse=descending): stable, results with
\* equal scores keep their order.
Before(list, j, i, descending) ==
    \/ (IF descending THEN list[j][3] > list[i][3] ELSE list[j][3] < list[i][3])
    \/ (list[j][3] = list[i][3] /\ j < i)
SortedBy(list, descending) ==
    [p \in 1..Len(list) |->
        list[CHOOSE i \in 1..Len(list) :
                Cardinality({j \in 1..Len(list) : Before(list, j, i, descending)}) = p - 1]]
\* BM25 sorted like the distances, lowest first.
bm25_sorted_ascending(bm25_list) == SortedBy(bm25_list, FALSE)
\* Line 59: highest BM25 score first.
bm25_sorted(bm25_list) == SortedBy(bm25_list, TRUE)
\* Line 60: smallest distance first.
emb_sorted(emb_list) == SortedBy(emb_list, FALSE)

\* weight * (1.0 / (k + rank)) as a whole number: every score of one call is
\* scaled by the product of k + r over the ranks r of the call.
RECURSIVE ScoreScale(_, _)
ScoreScale(k, n) == IF n = 0 THEN 1 ELSE (k + n) * ScoreScale(k, n - 1)
Contribution(weight, k, rank, n) == weight * (ScoreScale(k, n) \div (k + rank))

\* The sum of the contributions of the results of one sorted list, from rank
\* on, that carry the key.
KeyScore(sorted, key, weight, k, n) ==
    LET At_(rank) == IF item_key(sorted[rank][2]) = key
                     THEN Contribution(weight, k, rank, n) ELSE 0
        Sum[rank \in 0..Len(sorted)] ==
            IF rank = 0 THEN 0 ELSE Sum[rank - 1] + At_(rank)
    IN  Sum[Len(sorted)]

\* The keys of a sequence of results in the order of their first occurrence:
\* the insertion order of score_map and item_map.
RECURSIVE KeysInOrder(_, _)
KeysInOrder(results, seen) ==
    IF results = <<>> THEN <<>>
    ELSE IF item_key(results[1][2]) \in seen THEN KeysInOrder(Tail(results), seen)
    ELSE <<item_key(results[1][2])>>
         \o KeysInOrder(Tail(results), seen \cup {item_key(results[1][2])})
\* item_map.setdefault(key, item): the first item seen under the key.
FirstItem(results, key) ==
    results[FirstIn({i \in 1..Len(results) : item_key(results[i][2]) = key})][2]

\* Lines 56-72: the keys by fused score, highest first, equal scores in
\* insertion order (sorted is stable), each with its score.
FusedOrder(bm25_list, emb_list, k, bm25_weight, emb_weight) ==
    LET kk == Max(1, k)
        n == Max(Len(bm25_list), Len(emb_list))
        b == bm25_sorted(bm25_list)
        e == emb_sorted(emb_list)
        keys == KeysInOrder(b \o e, {})
        scored == [i \in 1..Len(keys) |->
                     <<keys[i], FirstItem(b \o e, keys[i]),
                       KeyScore(b, keys[i], bm25_weight, kk, n)
                       + KeyScore(e, keys[i], emb_weight, kk, n)>>]
    IN  SortedBy(scored, TRUE)
\* A fusion that returns every fused item.
rrf_fuse_uncut(bm25_list, emb_list, top_k, k, bm25_weight, emb_weight) ==
    LET fused == FusedOrder(bm25_list, emb_list, k, bm25_weight, emb_weight)
    IN  [i \in 1..Len(fused) |-> fused[i][2]]
\* rrf_fuse: the items of the first top_k keys.
rrf_fuse(bm25_list, emb_list, top_k, k, bm25_weight, emb_weight) ==
    LET fused == FusedOrder(bm25_list, emb_list, k, bm25_weight, emb_weight)
    IN  [i \in 1..Min(Max(1, top_k), Len(fused)) |-> fused[i][2]]

\* No library call is in progress.
NoCall == [fn |-> "none"]
LibraryIdle ==
    /\ register_calls = <<>>
    /\ call = NoCall
    /\ ret = NoCall

NoResult == [answer |-> <<>>, history |-> <<>>]
NoPrompt == [tools |-> <<>>, question |-> <<>>, history |-> <<>>]

\* ReActAgent.__init__ then the first lines of run.
ClampUnclamped(n) == Max(0, n)
Clamp(n) == Max(1, n)
AgentInit(llms) ==
    /\ cfg \in [max_steps : 0..MaxSteps, max_tool_calls : 0..MaxToolCalls, llm : llms]
    /\ max_steps = Max(1, cfg.max_steps)
    /\ max_tool_calls = Clamp(cfg.max_tool_calls)
    /\ default_topk = Max(1, DefaultTopk)
    /\ llm_timeout_sec = Max(1, DefaultLlmTimeoutSec)
    /\ pc = "loop"
    /\ step = 1
    /\ history = <<>>
    /\ tool_call_count = 0
    /\ prompt = NoPrompt
    /\ worker = "idle"
    /\ worker_out = <<>>
    /\ llm_raw = <<>>
    /\ timed_out = FALSE
    /\ model_out = <<>>
    /\ parsed = EmptyResult(<<>>)
    /\ result = NoResult
    /\ executed = <<>>
    /\ llm_calls = 0
    /\ tools = ChatRegistry
    /\ LibraryIdle

\* No agent is running.
NoAgent ==
    /\ cfg = [max_steps |-> 1, max_tool_calls |-> 1, llm |-> {}]
    /\ max_steps = 1
    /\ max_tool_calls = 1
    /\ default_topk = Max(1, DefaultTopk)
    /\ llm_timeout_sec = Max(1, DefaultLlmTimeoutSec)
    /\ pc = "none"
    /\ step = 1
    /\ history = <<>>
    /\ tool_call_count = 0
    /\ prompt = NoPrompt
    /\ worker = "idle"
    /\ worker_out = <<>>
    /\ llm_raw = <<>>
    /\ timed_out = FALSE
    /\ model_out = <<>>
    /\ parsed = EmptyResult(<<>>)
    /\ result = NoResult
    /\ executed = <<>>
    /\ llm_calls = 0

Init == AgentInit({LlmOutputs})
\* The same agent with a model that writes the Action Input texts.
InputInit == AgentInit({InputOutputs})

\* for step in range(1, self.max_steps + 1)
InLoopOneMore(s, n) == s <= n + 1
InLoop(s, n) == s <= n

\* The else of "if tool_call_count >= self.max_tool_calls"
BudgetLeftInclusive(count, cap) == count <= cap
BudgetLeft(count, cap) == count < cap

\* Line 165: model_out = (self._call_llm(prompt) or "").strip()
ModelOutUnstripped(raw) == raw
ModelOut(raw) == Strip(raw)

\* run, line 163, and _call_llm up to fut.result: render the prompt and
\* submit llm.generate to the worker.
CallLlm ==
    /\ pc = "loop"
    /\ InLoop(step, max_steps)
    /\ prompt' = render_prompt(ToolsTxt, Question, history)
    /\ worker' = "running"
    /\ llm_calls' = llm_calls + 1
    /\ pc' = "llm_wait"
    /\ UNCHANGED <<library, config, step, history, tool_call_count, worker_out, llm_raw,
                   timed_out, model_out, parsed, result, executed>>

\* llm.generate returns on the worker thread.
WorkerFinish ==
    /\ worker = "running"
    /\ \E o \in cfg.llm : worker_out' = o
    /\ worker' = "finished"
    /\ UNCHANGED <<library, config, pc, step, history, tool_call_count, prompt, llm_raw,
                   timed_out, model_out, parsed, result, executed, llm_calls>>

\* fut.result returns within the deadline; _call_llm returns str(out or "")
\* and run strips it (line 165).
LlmResult ==
    /\ pc = "llm_wait"
    /\ worker = "finished"
    /\ llm_raw' = worker_out
    /\ timed_out' = FALSE
    /\ model_out' = ModelOut(worker_out)
    /\ parsed' = parse_react(ModelOut(worker_out))
    /\ worker' = "idle"
    /\ worker_out' = <<>>
    /\ pc' = "parse"
    /\ UNCHANGED <<library, config, step, history, tool_call_count, prompt, result, executed, llm_calls>>

\* The deadline passes with the worker still running: fut.result raises
\* FutureTimeoutError and the handler returns from inside the with block,
\* whose exit is ThreadPoolExecutor.shutdown(wait=True).
LlmTimeout ==
    /\ pc = "llm_wait"
    /\ worker = "running"
    /\ pc' = "shutdown_wait"
    /\ UNCHANGED <<library, config, step, history, tool_call_count, prompt, worker, worker_out,
                   llm_raw, timed_out, model_out, parsed, result, executed, llm_calls>>

\* shutdown(wait=True) has joined the worker: _call_llm returns the failure
\* string; the worker's output is dropped.
ShutdownJoined ==
    /\ pc = "shutdown_wait"
    /\ worker = "finished"
    /\ llm_raw' = TimeoutMsg(llm_timeout_sec)
    /\ timed_out' = TRUE
    /\ model_out' = ModelOut(TimeoutMsg(llm_timeout_sec))
    /\ parsed' = parse_react(ModelOut(TimeoutMsg(llm_timeout_sec)))
    /\ worker' = "idle"
    /\ worker_out' = <<>>
    /\ pc' = "parse"
    /\ UNCHANGED <<library, config, step, history, tool_call_count, prompt, result, executed, llm_calls>>

\* Lines 184-186: parsed.action_input or {}, with the default topk.
ActionInputWithoutDefault(p) == p.action_input.dict
ActionInput(p) ==
    IF DictHas(p.action_input.dict, Str("topk")) THEN p.action_input.dict
    ELSE DictSet(p.action_input.dict, Str("topk"), <<ToString(default_topk)>>)

\* Lines 205-211: the step block appended to the history.
StepBlock(p, action_input, obs_txt) ==
    JoinLines(
        (IF p.thought # <<>> THEN <<(<<KwThought, SP>> \o p.thought)>> ELSE <<>>)
        \o <<(<<KwAction, SP>> \o p.action_name),
             (<<KwInput, SP>> \o JsonDumps(action_input)),
             (<<KwObservation, NL>> \o obs_txt)>>)
\* Line 211: history = (history + "\n\n" + "\n".join(step_block)).strip()
AppendBlockReplacing(h, block) == Strip(block)
AppendBlock(h, block) == Strip(h \o <<NL, NL>> \o block)

\* The end of an iteration: model_out and parsed are not read again before
\* lines 165-166 assign them anew.
IterationLocalsCleared ==
    /\ llm_raw' = <<>>
    /\ timed_out' = FALSE
    /\ model_out' = <<>>
    /\ parsed' = EmptyResult(<<>>)

\* Lines 176-179: a Final ends the run.
ReturnFinal ==
    /\ pc = "parse"
    /\ parsed.final # <<>>
    /\ result' = [answer |-> parsed.final, history |-> history]
    /\ pc' = "done"
    /\ UNCHANGED <<library, config, step, history, tool_call_count, prompt, worker, worker_out,
                   llm_raw, timed_out, model_out, parsed, executed, llm_calls>>

\* Lines 181-182: neither Final nor Action.
ReturnRaw ==
    /\ pc = "parse"
    /\ parsed.final = <<>>
    /\ parsed.action_name = <<>>
    /\ result' = [answer |-> model_out, history |-> history]
    /\ pc' = "done"
    /\ UNCHANGED <<library, config, step, history, tool_call_count, prompt, worker, worker_out,
                   llm_raw, timed_out, model_out, parsed, executed, llm_calls>>

\* Lines 188-190 and 205-211: the budget is used up, the tool is not called.
BudgetExhausted ==
    /\ pc = "parse"
    /\ parsed.final = <<>>
    /\ parsed.action_name # <<>>
    /\ ~BudgetLeft(tool_call_count, max_tool_calls)
    /\ history' = AppendBlock(history,
                      StepBlock(parsed,
                                ActionInput(parsed), BudgetMsg))
    /\ step' = step + 1
    /\ pc' = "loop"
    /\ IterationLocalsCleared
    /\ UNCHANGED <<library, config, tool_call_count, prompt, worker, worker_out, result, executed, llm_calls>>

\* A count that only the calls that returned add to.
tool_call_count_after_return(count, out) == IF out.raised THEN count ELSE count + 1
\* tool_call_count += 1 (line 200), after the try/except, whatever came out.
tool_call_count_after(count, out) == count + 1

\* Lines 191-211: the tool is called through ToolExecutor.execute; what it
\* returns or raises becomes the observation.
Dispatch ==
    /\ pc = "parse"
    /\ parsed.final = <<>>
    /\ parsed.action_name # <<>>
    /\ BudgetLeft(tool_call_count, max_tool_calls)
    /\ \E out \in Execute(parsed.action_name,
                          ActionInput(parsed)) :
          /\ executed' = Append(executed, [step |-> step, name |-> parsed.action_name,
                                           args |-> ActionInput(parsed),
                                           raised |-> out.raised, err |-> out.err])
          /\ IF out.raised /\ ~Catches(out.cls)
             THEN /\ pc' = "raised"
                  /\ UNCHANGED <<history, tool_call_count, step, llm_raw, timed_out,
                                 model_out, parsed>>
             ELSE /\ history' = AppendBlock(history,
                          StepBlock(parsed,
                                    ActionInput(parsed),
                                    FormatObservation(out.items, out.err)))
                  /\ tool_call_count' = tool_call_count_after(tool_call_count, out)
                  /\ step' = step + 1
                  /\ pc' = "loop"
                  /\ IterationLocalsCleared
    /\ UNCHANGED <<library, config, prompt, worker, worker_out, result, llm_calls>>

\* Line 213: the loop ran max_steps times.
StepsExhausted ==
    /\ pc = "loop"
    /\ ~InLoop(step, max_steps)
    /\ result' = [answer |-> MaxStepsMsg, history |-> history]
    /\ pc' = "done"
    /\ UNCHANGED <<library, config, step, history, tool_call_count, prompt, worker, worker_out,
                   llm_raw, timed_out, model_out, parsed, executed, llm_calls>>

Next ==
    \/ CallLlm
    \/ WorkerFinish
    \/ LlmResult
    \/ LlmTimeout
    \/ ShutdownJoined
    \/ ReturnFinal
    \/ ReturnRaw
    \/ BudgetExhausted
    \/ Dispatch
    \/ StepsExhausted

Spec == Init /\ [][Next]_vars
InputSpec == InputInit /\ [][Next]_vars

\* ------------------------------------------------ the registry on its own
\* The names tools may carry: with blanks around them, empty, blank.
RawNames ==
    { NameRag, <<SP>> \o NameRag, NameOnline, NameOnline \o <<SP>>, <<>>, <<SP>> }
RegistryInit ==
    /\ NoAgent
    /\ tools = EmptyRegistry
    /\ LibraryIdle
\* executor.register(tool)
Register ==
    /\ Len(register_calls) < MaxRegisterCalls
    /\ \E raw \in RawNames, id \in 1..NumTools :
          LET tool == [name |-> raw, id |-> id]
              out == register(tools, tool)
          IN  /\ tools' = out.tools
              /\ register_calls' = Append(register_calls, [tool |-> tool, raised |-> out.raised])
    /\ UNCHANGED <<agent, call, ret>>
RegistryNext == Register
RegistrySpec == RegistryInit /\ [][RegistryNext]_vars

\* ---------------------------------------------------- rrf_fuse on its own
ItemA == [id |-> "a", doc_id |-> "", text |-> "ta"]
ItemB == [id |-> "", doc_id |-> "d", text |-> "tb"]
ItemC == [id |-> "", doc_id |-> "", text |-> "tc"]
ItemD == [id |-> "", doc_id |-> "", text |-> "td"]
\* Another chunk text under the id of ItemA.
ItemE == [id |-> "a", doc_id |-> "d", text |-> "te"]
RecallLists ==
    UNION { [1..n -> {<<0, ItemA, 2>>, <<0, ItemB, 1>>, <<0, ItemC, 1>>, <<0, ItemE, 2>>}]
            : n \in 0..MaxRecall }
\* BM25 [(1,A,10),(2,B,8),(3,C,5)], vector [(3,C,0.1),(1,A,0.2),(4,D,0.3)]
\* (distances in tenths), k=60, both weights 1.0.
ExampleCall ==
    [fn |-> "rrf_fuse",
     bm25_list |-> <<(<<1, ItemA, 10>>), (<<2, ItemB, 8>>), (<<3, ItemC, 5>>)>>,
     emb_list |-> <<(<<3, ItemC, 1>>), (<<1, ItemA, 2>>), (<<4, ItemD, 3>>)>>,
     top_k |-> 4, k |-> RrfK, bm25_weight |-> 1, emb_weight |-> 1]
RrfCalls ==
    [fn : {"rrf_fuse"}, bm25_list : RecallLists, emb_list : RecallLists,
     top_k : 1..MaxTopK, k : {RrfK}, bm25_weight : {1, 2}, emb_weight : {1}]
    \cup {ExampleCall}
RrfInit ==
    /\ NoAgent
    /\ tools = EmptyRegistry
    /\ register_calls = <<>>
    /\ call \in RrfCalls
    /\ ret = NoCall
\* rrf_fuse(bm25_list, emb_list, top_k=..., k=..., bm25_weight=..., emb_weight=...)
RrfFuse ==
    /\ call.fn = "rrf_fuse"
    /\ ret = NoCall
    /\ ret' = [fn |-> "rrf_fuse",
               fused |-> rrf_fuse(call.bm25_list, call.emb_list, call.top_k, call.k,
                                  call.bm25_weight, call.emb_weight)]
    /\ UNCHANGED <<agent, tools, register_calls, call>>
\* A ranking as a BM25 result list (scores falling) and as a vector result
\* list (distances rising).
AsBm25(ranking) == [i \in 1..Len(ranking) |-> <<ranking[i][1], ranking[i][2], Len(ranking) + 1 - i>>]
AsEmb(ranking) == [i \in 1..Len(ranking) |-> <<ranking[i][1], ranking[i][2], i>>]
\* The same call with the two rankings swapped.
RrfFuseSwapped ==
    /\ call.fn = "rrf_fuse"
    /\ ret.fn = "rrf_fuse"
    /\ ret' = [fn |-> "rrf_fuse_swapped",
               fused |-> ret.fused,
               swapped |-> rrf_fuse(AsBm25(emb_sorted(call.emb_list)),
                                    AsEmb(bm25_sorted(call.bm25_list)),
                                    call.top_k, call.k, call.emb_weight, call.bm25_weight)]
    /\ UNCHANGED <<agent, tools, register_calls, call>>
RrfNext ==
    \/ RrfFuse
    \/ RrfFuseSwapped
RrfSpec == RrfInit /\ [][RrfNext]_vars

\* ------------------------------------------- the advanced search pipeline
\* An Optional[int] argument is <<>> for None and <<n>> for the integer n.
\* top_n = max(1, int(top_n))
top_n_clamped(top_n) == Max(1, top_n)
\* recall_k without the floor at top_n.
recall_k_unfloored(top_n, recall_k) ==
    IF recall_k = <<>> THEN 2 * top_n_clamped(top_n) ELSE recall_k[1]
\* recall_k = int(recall_k) if recall_k is not None else 2 * top_n
\* recall_k = max(top_n, recall_k)
recall_k_clamped(top_n, recall_k) ==
    Max(top_n_clamped(top_n),
        IF recall_k = <<>> THEN 2 * top_n_clamped(top_n) ELSE recall_k[1])

\* A database is the record of what its two retrievers do when searched,
\* "ok" or "raise". retriever.search(query, k) of database db returns its
\* first k hits, of the MaxHits it holds.
Hits(kind, db, k) == [j \in 1..Min(Max(0, k), MaxHits) |-> <<kind, db, j>>]
\* The loop "for r in list: try: all.extend(r.search(q, k)) except Exception".
ExtendedGuarded(dbs, kind, k) ==
    LET All[n \in 0..Len(dbs)] ==
            IF n = 0 THEN <<>>
            ELSE All[n - 1] \o (IF dbs[n][kind] = "raise" THEN <<>> ELSE Hits(kind, n, k))
    IN  All[Len(dbs)]
\* The k of every search call of the loop.
SearchedWith(dbs, k) == [n \in 1..Len(dbs) |-> k]
\* per_db_k rounded down.
per_db_k_floor(recall_k, db_num) == Max(1, recall_k \div db_num)
\* per_db_k = max(1, (recall_k + db_num - 1) // db_num)
per_db_k(recall_k, db_num) == Max(1, (recall_k + db_num - 1) \div db_num)
\* MultiDBRecallProvider.recall: the lists it returns, the k of every search
\* it made, and whether it raised (get_embedding is outside the try).
MultiDBRecallProvider_recall(dbs, embed, recall_k) ==
    LET k == per_db_k(Max(1, recall_k), Max(1, Len(dbs)))
    IN  [raised |-> embed = "raise",
         bm25_ks |-> SearchedWith(dbs, k),
         emb_ks |-> IF embed = "raise" THEN <<>> ELSE SearchedWith(dbs, k),
         bm25_list |-> ExtendedGuarded(dbs, "bm25", k),
         emb_list |-> IF embed = "raise" THEN <<>> ELSE ExtendedGuarded(dbs, "emb", k)]

\* run_search_advanced with the provider MultiDBSearcher.search_advanced
\* builds: the arguments of the recall, fusion and rank calls it makes.
run_search_advanced(c) ==
    LET top_n == top_n_clamped(c.top_n)
        recall_k == recall_k_clamped(c.top_n, c.recall_k)
        recalled == MultiDBRecallProvider_recall(c.dbs, c.embed, recall_k)
    IN  [fn |-> c.fn, raised |-> recalled.raised, top_n |-> top_n,
         recall_ks |-> <<recall_k>>, recalled |-> recalled,
         fuse_top_k |-> IF recalled.raised THEN <<>> ELSE <<recall_k>>,
         rank_top_n |-> IF recalled.raised THEN <<>> ELSE <<top_n>>]
\* Searcher.search_advanced: one database, no try around its searches.
Searcher_search_advanced(c) ==
    LET top_n == top_n_clamped(c.top_n)
        recall_k == recall_k_clamped(c.top_n, c.recall_k)
        db == c.dbs[1]
        bm25_raised == db.bm25 = "raise"
        emb_called == ~bm25_raised /\ c.embed = "ok"
        raised == bm25_raised \/ c.embed = "raise" \/ db.emb = "raise"
    IN  [fn |-> c.fn, raised |-> raised, top_n |-> top_n,
         recall_ks |-> IF emb_called THEN <<recall_k, recall_k>> ELSE <<recall_k>>,
         recalled |-> [raised |-> raised,
                       bm25_ks |-> <<recall_k>>,
                       emb_ks |-> IF emb_called THEN <<recall_k>> ELSE <<>>,
                       bm25_list |-> IF bm25_raised THEN <<>> ELSE Hits("bm25", 1, recall_k),
                       emb_list |-> IF raised THEN <<>> ELSE Hits("emb", 1, recall_k)],
         fuse_top_k |-> IF raised THEN <<>> ELSE <<recall_k>>,
         rank_top_n |-> IF raised THEN <<>> ELSE <<top_n>>]

\* A database is searched by a BM25 and a vector retriever.
Databases == [bm25 : {"ok", "raise"}, emb : {"ok", "raise"}]
SearchCalls ==
    [fn : {"Searcher.search_advanced"},
     top_n : -1..MaxTopN, recall_k : {<<>>} \cup {<<n>> : n \in -1..MaxRecallK},
     dbs : [1..1 -> Databases], embed : {"ok", "raise"}]
    \cup
    [fn : {"MultiDBSearcher.search_advanced"},
     top_n : -1..MaxTopN, recall_k : {<<>>} \cup {<<n>> : n \in -1..MaxRecallK},
     dbs : UNION {[1..n -> Databases] : n \in 0..MaxDbs}, embed : {"ok", "raise"}]
SearchInit ==
    /\ NoAgent
    /\ tools = EmptyRegistry
    /\ register_calls = <<>>
    /\ call \in SearchCalls
    /\ ret = NoCall
SearcherSearchAdvanced ==
    /\ call.fn = "Searcher.search_advanced"
    /\ ret = NoCall
    /\ ret' = Searcher_search_advanced(call)
    /\ UNCHANGED <<agent, tools, register_calls, call>>
MultiDBSearcherSearchAdvanced ==
    /\ call.fn = "MultiDBSearcher.search_advanced"
    /\ ret = NoCall
    /\ ret' = run_search_advanced(call)
    /\ UNCHANGED <<agent, tools, register_calls, call>>
SearchNext ==
    \/ SearcherSearchAdvanced
    \/ MultiDBSearcherSearchAdvanced
SearchSpec == SearchInit /\ [][SearchNext]_vars

\* ------------------------------------------------- chunking and the build
\* A text is a sequence of tokens; a document item carries the sentences
\* sent_split_model.split_text returns for its stripped text (none for an
\* empty text). A dict item carries its id and its meta, "" or 0 for a value
\* that is missing or falsy; a plain-string item carries only its text.
\* tinyrag.utils.make_doc_id: determined by (source_path, page, record_index).
make_doc_id(source_path, page, record_index) == <<source_path, page, record_index>>
\* tinyrag.utils.make_chunk_id: determined by (doc_id, chunk_index).
make_chunk_id(doc_id, chunk_index) == <<doc_id, chunk_index>>
\* str(doc_item.get("id") or meta.get("doc_id") or ""), else make_doc_id(...);
\* make_doc_id("", 0, 0) for a plain string.
doc_id_of(doc_item) ==
    IF doc_item.kind = "str" THEN make_doc_id("", 0, 0)
    ELSE IF doc_item.id # "" THEN <<doc_item.id>>
    ELSE IF doc_item.meta.doc_id # "" THEN <<doc_item.meta.doc_id>>
    ELSE make_doc_id(doc_item.meta.source_path, doc_item.meta.page,
                     doc_item.meta.record_index)
\* meta = doc_item.get("meta") or {}; {"source_path": ""} for a plain string.
meta_of(doc_item) ==
    IF doc_item.kind = "str"
    THEN [doc_id |-> "", source_path |-> "", page |-> 0, record_index |-> 0,
          law |-> ""]
    ELSE doc_item.meta
\* Only the empty sentences are dropped.
LongEnoughNotEmpty(sent_res, min_chunk_len) ==
    LET Keep(sent) == sent # <<>>
    IN  SelectSeq(sent_res, Keep)
\* [s for s in sent_res if s and len(s) >= min_chunk_len]
LongEnough(sent_res, min_chunk_len) ==
    LET Keep(sent) == sent # <<>> /\ Len(sent) >= min_chunk_len
    IN  SelectSeq(sent_res, Keep)
\* [s for s in sent_res if s and s.strip()]
NonBlank(sent_res) ==
    LET Keep(sent) == sent # <<>> /\ Strip(sent) # <<>>
    IN  SelectSeq(sent_res, Keep)
\* for idx, sent in enumerate(sent_res): one chunk per sentence.
Enumerated(doc_item, sent_res) ==
    [p \in 1..Len(sent_res) |->
        [id |-> make_chunk_id(doc_id_of(doc_item), p - 1),
         text |-> sent_res[p],
         meta |-> meta_of(doc_item),
         chunk_index |-> p - 1]]
\* int(meta.get("page") or 0) raises ValueError for a page that is no number.
ChunkingRaises(doc_item) == doc_item.kind = "bad"
\* process_doc_item of tiny_rag.py, for an item it does not raise on.
process_doc_item(doc_item, min_chunk_len) ==
    Enumerated(doc_item, LongEnough(doc_item.text, min_chunk_len))

\* _is_law_doc: one of law, article, book, chapter is set in the meta.
is_law_doc(meta) == meta.law # ""
\* sum(len(x) for x in buf) + max(0, len(buf) - 1)
buf_len(buf) ==
    LET Sum[n \in 0..Len(buf)] == IF n = 0 THEN 0 ELSE Sum[n - 1] + Len(buf[n])
    IN  Sum[Len(buf)] + Max(0, Len(buf) - 1)
\* [s.strip() for s in sents if s and s.strip()]
StrippedNonBlank(sents) ==
    LET kept == NonBlank(sents)
    IN  [i \in 1..Len(kept) |-> Strip(kept[i])]
\* flush(): the buffer joined by newlines is appended to out unless empty.
flush(out, buf) ==
    LET text == Strip(JoinLines(StrippedNonBlank(buf)))
    IN  IF buf = <<>> \/ text = <<>> THEN out ELSE Append(out, text)
\* sent.endswith(fullwidth colon) or sent.endswith(":")
IsIntroducer(sent) == sent # <<>> /\ sent[Len(sent)] \in {"fw_colon", ":"}
\* if buf and cur_len >= min_chars and (cur_len + 1 + len(sent)) > max_chars
FlushBefore(buf, sent, max_chars, min_chars) ==
    buf # <<>> /\ buf_len(buf) >= min_chars /\ buf_len(buf) + 1 + Len(sent) > max_chars
\* The loop of _merge_law_sentences over the sentences that are left.
RECURSIVE MergeFrom(_, _, _, _, _)
MergeFrom(sents, out, buf, max_chars, min_chars) ==
    IF sents = <<>> THEN flush(out, buf)
    ELSE LET sent == Head(sents)
             before == FlushBefore(buf, sent, max_chars, min_chars)
             out1 == IF before THEN flush(out, buf) ELSE out
             buf1 == (IF before THEN <<>> ELSE buf) \o <<sent>>
         IN  IF IsIntroducer(sent)
             THEN MergeFrom(Tail(sents), out1, buf1, max_chars, min_chars)
             ELSE IF buf_len(buf1) >= max_chars
             THEN MergeFrom(Tail(sents), flush(out1, buf1), <<>>, max_chars, min_chars)
             ELSE MergeFrom(Tail(sents), out1, buf1, max_chars, min_chars)
\* _merge_law_sentences(sents, max_chars=..., min_chars=120)
merge_law_sentences(sents, max_chars) ==
    MergeFrom(StrippedNonBlank(sents), <<>>, <<>>, Max(1, max_chars), Max(1, MinChars))
\* The sentences of chunk_doc_item before the min_chunk_len filter.
MergedSentences(doc_item, sentence_size) ==
    IF is_law_doc(meta_of(doc_item))
    THEN merge_law_sentences(NonBlank(doc_item.text), sentence_size)
    ELSE NonBlank(doc_item.text)
\* chunk_doc_item of rag/chunking.py, for an item it does not raise on;
\* sentence_size is that of the splitter.
chunk_doc_item(doc_item, sentence_size, min_chunk_len) ==
    Enumerated(doc_item, LongEnough(MergedSentences(doc_item, sentence_size),
                                    min_chunk_len))

\* n ordinary characters.
Chars(n) == [i \in 1..n |-> "x"]
\* An introducer and an enumeration item with n characters after "(1)".
Intro == <<"x", "fw_colon">>
EnumItem(n) == <<"fw_lparen", "cn_one", "fw_rparen">> \o Chars(n)
\* The items a build is given: plain strings and dict items whose doc_id
\* comes from the id, from meta.doc_id, or from (source_path, page,
\* record_index); texts of no, one or two sentences, one of them blank; and
\* a dict item chunking raises on (its meta page is not a number).
DocItems ==
    LET Texts == {<<>>, <<(<<"x">>)>>, <<(<<"x", "x">>), (<<"x">>)>>,
                  <<(<<SP, SP>>), (<<"x", "x">>)>>}
        Meta(doc_id, page) ==
            [doc_id |-> doc_id, source_path |-> "p", page |-> page, record_index |-> 0,
             law |-> ""]
    IN  [kind : {"str"}, text : Texts]
        \cup [kind : {"dict"}, id : {""}, text : Texts,
              meta : {Meta("", 0), Meta("", 1), Meta("m", 0)}]
        \cup [kind : {"dict"}, id : {"i"}, text : Texts, meta : {Meta("", 0)}]
        \cup [kind : {"bad"}, text : {<<(<<"x", "x">>)>>}]
\* Law articles: an introducer with its items, short and long, a blank
\* sentence among them, and plain sentences around min_chars.
LawItems ==
    [kind : {"dict"}, id : {"i"},
     meta : {[doc_id |-> "", source_path |-> "p", page |-> 0, record_index |-> 0,
              law |-> "L"]},
     text : {<<>>,
             <<Intro, EnumItem(1), EnumItem(1)>>,
             <<Intro, EnumItem(1), (<<SP, SP>>), EnumItem(2)>>,
             <<Intro, EnumItem(MinChars), EnumItem(1)>>,
             <<Chars(MinChars + 5), Chars(10)>>,
             <<Chars(MinChars - 20), Chars(40)>>,
             <<(<<"x", ":">>), (<<"x">>)>>}]
SentenceSizes == {4, 16, MinChars + 10}
ChunkCalls ==
    [fn : {"build"}, docs : UNION {[1..n -> DocItems] : n \in 0..MaxDocs},
     min_chunk_len : {0, 1, 2}]
    \cup [fn : {"chunk_doc_item"}, doc_item : DocItems \cup LawItems,
          sentence_size : SentenceSizes, min_chunk_len : {0, 1, 2, 8}]
ChunkInit ==
    /\ NoAgent
    /\ tools = EmptyRegistry
    /\ register_calls = <<>>
    /\ call \in ChunkCalls
    /\ ret = NoCall
\* chunk_doc_item(doc_item, sent_split_model, min_chunk_len=...)
ChunkDocItem ==
    /\ call.fn = "chunk_doc_item"
    /\ ret = NoCall
    /\ ret' = IF ChunkingRaises(call.doc_item)
               THEN [fn |-> "chunk_doc_item", stage |-> "raised", pending |-> {},
                     merged |-> <<>>, chunk_list |-> <<>>]
               ELSE [fn |-> "chunk_doc_item", stage |-> "returned", pending |-> {},
                     merged |-> MergedSentences(call.doc_item, call.sentence_size),
                     chunk_list |-> chunk_doc_item(call.doc_item, call.sentence_size,
                                                   call.min_chunk_len)]
    /\ UNCHANGED <<agent, tools, register_calls, call>>
\* The ValueError of build (in Chinese): building failed, nothing is left
\* after splitting and filtering, check whether min_chunk_len is too large.
NoChunksMsg == <<"build_failed_no_chunks", SP, "check", SP, "min_chunk_len", SP, "too_large">>
\* A build that goes on to the indexes whatever the chunk list is.
build_outcome_unchecked(chunk_list) ==
    [stage |-> "saved", error |-> <<>>, manifest |-> <<chunk_list>>,
     bm25_index |-> <<chunk_list>>, emb_index |-> <<chunk_list>>, saved |-> TRUE]
\* Lines 184-196 of build: the chunk list is written to split_sentence.jsonl;
\* ValueError is raised when it is empty; else Searcher.build_db builds the
\* BM25 and the vector index from it and save_db saves both.
build_outcome(chunk_list) ==
    IF chunk_list = <<>>
    THEN [stage |-> "raised", error |-> NoChunksMsg, manifest |-> <<chunk_list>>,
          bm25_index |-> <<>>, emb_index |-> <<>>, saved |-> FALSE]
    ELSE [stage |-> "saved", error |-> <<>>, manifest |-> <<chunk_list>>,
          bm25_index |-> <<chunk_list>>, emb_index |-> <<chunk_list>>, saved |-> TRUE]
\* TinyRAG.build: one process_doc_item future is submitted per document.
BuildSubmit ==
    /\ call.fn = "build"
    /\ ret = NoCall
    /\ ret' = [fn |-> "build", stage |-> "collecting",
               pending |-> 1..Len(call.docs), chunk_list |-> <<>>, logged |-> {},
               outcome |-> <<>>]
    /\ UNCHANGED <<agent, tools, register_calls, call>>
\* as_completed yields the futures in the order they finish, any order:
\* try: chunk_list.extend(future.result()) except Exception: logger.error(...)
BuildCollect ==
    /\ ret.fn = "build"
    /\ ret.stage = "collecting"
    /\ \E d \in ret.pending :
          ret' = IF ChunkingRaises(call.docs[d])
                 THEN [ret EXCEPT !.pending = @ \ {d}, !.logged = @ \cup {d}]
                 ELSE [ret EXCEPT !.pending = @ \ {d},
                                  !.chunk_list = @ \o process_doc_item(call.docs[d],
                                                                       call.min_chunk_len)]
    /\ UNCHANGED <<agent, tools, register_calls, call>>
\* After the pool: the rest of build.
BuildFinish ==
    /\ ret.fn = "build"
    /\ ret.stage = "collecting"
    /\ ret.pending = {}
    /\ ret' = [ret EXCEPT !.stage = build_outcome(ret.chunk_list).stage,
                          !.outcome = <<build_outcome(ret.chunk_list)>>]
    /\ UNCHANGED <<agent, tools, register_calls, call>>
ChunkNext ==
    \/ ChunkDocItem
    \/ BuildSubmit
    \/ BuildCollect
    \/ BuildFinish
ChunkSpec == ChunkInit /\ [][ChunkNext]_vars

\* ------------------------------------------------------------ citations
\* A reranked chunk is a dict with its text and meta, or some other value;
\* a meta value that is missing or falsy is "".
Bar == <<SP, "|", SP>>
UnknownSource == <<"unknown-source">>
\* [i] body
Numbered(i, body) == <<"[", ToString(i), "]", SP>> \o body
\* _format_law_location: the law, then book, chapter, section and article,
\* each with its placeholder when missing.
format_law_location(meta) ==
    (IF meta.law # "" THEN <<meta.law>> \o Bar ELSE <<>>)
    \o <<"unknown-book">> \o Bar \o <<"unknown-chapter">> \o Bar \o <<"no-section">>
    \o Bar \o <<(IF meta.article # "" THEN meta.article ELSE "unknown-article")>>
\* _is_case_chunk
is_case_chunk(meta) == meta.case_title # ""
\* _format_case_source: the source and the title that are there.
format_case_source(meta) ==
    IF meta.source_path # "" THEN <<meta.source_path>> \o Bar \o <<meta.case_title>>
    ELSE <<meta.case_title>>
\* source_path page-<page>, or the source_path alone.
FileSource(meta) ==
    IF meta.page # "" THEN <<meta.source_path, SP, "page", meta.page>>
    ELSE <<meta.source_path>>
\* Law meta as format_source sees it: it looks at the chapter too (absent here).
IsLawMeta(meta) == meta.law # "" \/ meta.article # ""
\* Lines 102-116 of build_context_and_citations: the citation of one chunk.
citation(chunk) ==
    IF chunk.kind # "dict" THEN UnknownSource
    ELSE IF chunk.meta.source_path = "" THEN UnknownSource
    ELSE IF IsLawMeta(chunk.meta)
    THEN <<chunk.meta.source_path>> \o Bar \o format_law_location(chunk.meta)
    ELSE IF is_case_chunk(chunk.meta) THEN format_case_source(chunk.meta)
    ELSE FileSource(chunk.meta)
\* Lines 297-305 of TinyRAG.search: the citation of one chunk.
search_citation(chunk) ==
    IF chunk.kind # "dict" THEN UnknownSource
    ELSE IF chunk.meta.source_path = "" THEN UnknownSource
    ELSE FileSource(chunk.meta)
\* format_source of format_observation_for_prompt, behind the url that
\* lines 332 and 341 put first: source={url if url else format_source(meta)}.
format_source(meta) ==
    IF meta.url # "" THEN <<meta.url>>
    ELSE IF IsLawMeta(meta)
    THEN (IF meta.source_path # "" THEN <<meta.source_path>> \o Bar ELSE <<>>)
         \o format_law_location(meta)
    ELSE IF is_case_chunk(meta)
    THEN format_case_source(meta)
         \o (IF meta.page # "" THEN Bar \o <<"page", meta.page>> ELSE <<>>)
    ELSE IF meta.source_path # "" THEN FileSource(meta)
    ELSE UnknownSource
\* The context entry of a chunk: its stripped text (_expand_case_blocks
\* imports tinyrag.ingest.readers, which tinyrag/ingest.py does not have, and
\* returns ""), or str(chunk).
context_entry(chunk) == IF chunk.kind = "dict" THEN Strip(chunk.text) ELSE chunk.text
\* Citation lines for the chunks that have a source only.
cite_lines_sourced(chunks) ==
    LET Sourced(chunk) == citation(chunk) # UnknownSource
        kept == SelectSeq(chunks, Sourced)
    IN  [i \in 1..Len(kept) |-> Numbered(i, citation(kept[i]))]
\* cite_lines of build_context_and_citations.
cite_lines(chunks) == [i \in 1..Len(chunks) |-> Numbered(i, citation(chunks[i]))]
\* context_lines of build_context_and_citations and of TinyRAG.search.
context_lines(chunks) == [i \in 1..Len(chunks) |-> Numbered(i, context_entry(chunks[i]))]

\* Metas over source_path, page, law, article, case_title and url.
CiteChunks ==
    [kind : {"dict"}, text : {<<"t", SP>>},
     meta : [source_path : {"", "p"}, page : {"", "3"}, law : {"", "L"}, article : {""},
             case_title : {"", "T"}, url : {"", "u"}]]
    \cup [kind : {"dict"}, text : {<<>>},
          meta : {[source_path |-> "p", page |-> "", law |-> "", article |-> "A",
                   case_title |-> "", url |-> ""]}]
    \cup {[kind |-> "other", text |-> <<"s">>]}
CiteCalls ==
    [fn : {"build_context_and_citations", "TinyRAG.search", "format_observation_for_prompt"},
     chunks : UNION {[1..n -> CiteChunks] : n \in 0..MaxChunks}]
CiteInit ==
    /\ NoAgent
    /\ tools = EmptyRegistry
    /\ register_calls = <<>>
    /\ call \in CiteCalls
    /\ ret = NoCall
\* build_context_and_citations(chunks)
BuildContextAndCitations ==
    /\ call.fn = "build_context_and_citations"
    /\ ret = NoCall
    /\ ret' = [fn |-> call.fn,
               context_lines |-> context_lines(call.chunks),
               context |-> JoinLines(context_lines(call.chunks)),
               cite_lines |-> cite_lines(call.chunks)]
    /\ UNCHANGED <<agent, tools, register_calls, call>>
\* TinyRAG.search from line 287 on, the reranked chunks given.
SearchCitations ==
    /\ call.fn = "TinyRAG.search"
    /\ ret = NoCall
    /\ ret' = [fn |-> call.fn,
               context_lines |-> context_lines(call.chunks),
               context |-> JoinLines(context_lines(call.chunks)),
               cite_lines |-> [i \in 1..Len(call.chunks) |->
                                  Numbered(i, search_citation(call.chunks[i]))]]
    /\ UNCHANGED <<agent, tools, register_calls, call>>
\* The source line format_observation_for_prompt writes for each item.
ObservationSources ==
    /\ call.fn = "format_observation_for_prompt"
    /\ ret = NoCall
    /\ ret' = [fn |-> call.fn,
               sources |-> [i \in 1..Len(call.chunks) |->
                               IF call.chunks[i].kind = "dict"
                               THEN format_source(call.chunks[i].meta)
                               ELSE UnknownSource]]
    /\ UNCHANGED <<agent, tools, register_calls, call>>
CiteNext ==
    \/ BuildContextAndCitations
    \/ SearchCitations
    \/ ObservationSources
CiteSpec == CiteInit /\ [][CiteNext]_vars

\* ---------------------------------------------------------------- claims
EndsWith(s, suffix) ==
    Len(s) >= Len(suffix) /\ SubSeq(s, Len(s) - Len(suffix) + 1, Len(s)) = suffix
\* A line-anchored keyword line in the text.
HasLine(text, kw) == \E i \in 1..Len(text) : text[i] = kw /\ AnchoredAt(text, i)
\* run is about to act on an Action the model asked for.
ActionRequested == pc = "parse" /\ parsed.final = <<>> /\ parsed.action_name # <<>>
BudgetObservation == <<KwObservation, NL>> \o BudgetMsg

\* C1: in every run the number of tool calls dispatched through
\* ToolExecutor.execute never exceeds self.max_tool_calls.
C1_ToolCallsWithinBudget == Len(executed) <= max_tool_calls
\* The budget is used up and a further Action was turned away.
C1_Witness ==
    /\ Len(executed) = max_tool_calls
    /\ max_tool_calls = MaxToolCalls
    /\ EndsWith(history, BudgetObservation)

\* C2: run terminates when every LLM call and tool call returns: every step
\* of run lowers a measure that is a natural number and is 0 exactly when
\* run has returned, and run is never stuck before it has returned; the LLM
\* is invoked at most max_steps times; when the loop runs out of steps run
\* returns the fixed failure message with the accumulated history.
RunStage ==
    IF pc = "loop" THEN 6
    ELSE IF pc = "llm_wait" /\ worker = "running" THEN 5
    ELSE IF pc = "shutdown_wait" /\ worker = "running" THEN 4
    ELSE IF pc \in {"llm_wait", "shutdown_wait"} THEN 3
    ELSE IF pc = "parse" THEN 2
    ELSE 0
RunMeasure ==
    IF pc \in {"done", "raised"} THEN 0 ELSE 7 * (max_steps + 1 - step) + RunStage
RunCanStep ==
    \/ pc = "loop"
    \/ pc \in {"llm_wait", "shutdown_wait"} /\ worker \in {"running", "finished"}
    \/ /\ pc = "parse"
       /\ \/ parsed.final # <<>>
          \/ parsed.action_name = <<>>
          \/ tool_call_count >= max_tool_calls
          \/ Execute(parsed.action_name, ActionInput(parsed)) # {}
C2_RunTerminates ==
    /\ [][RunMeasure' < RunMeasure]_vars
    /\ [](RunMeasure >= 0 /\ (RunMeasure = 0 <=> pc = "done"))
    /\ [](pc # "done" => RunCanStep)
    /\ [](llm_calls <= max_steps)
    /\ []((pc = "done" /\ step > max_steps)
            => result = [answer |-> MaxStepsMsg, history |-> history])
\* The loop ran all its steps, each one an Action, and gave up.
C2_Witness ==
    /\ pc = "done"
    /\ step > max_steps
    /\ max_steps = MaxSteps
    /\ llm_calls = max_steps
    /\ result.answer = MaxStepsMsg
    /\ result.history # <<>>

\* C3: an Action requested after max_tool_calls tool calls were executed is
\* not dispatched; the budget-exhausted observation becomes that step's
\* Observation in the history, and the prompt of every LLM call carries the
\* history as it then is.
C3_BudgetExhaustedObservation ==
    /\ [][(ActionRequested /\ Len(executed) >= max_tool_calls)
            => /\ executed' = executed
               /\ EndsWith(history', BudgetObservation)
               /\ Len(history') > Len(history)
               /\ pc' = "loop"]_vars
    /\ [](pc \in {"llm_wait", "shutdown_wait", "parse"} => prompt.history = history)
\* The LLM is being asked again with the budget-exhausted observation last
\* in its prompt.
C3_Witness ==
    /\ pc = "llm_wait"
    /\ Len(executed) = max_tool_calls
    /\ EndsWith(prompt.history, BudgetObservation)

\* C4 as stated: every output with a line-anchored Final: line is parsed as
\* a Final (non-empty final, no action name, no action input), whether the
\* Action line comes before or after it, and run returns on that step
\* without dispatching a tool.
C4_AnyFinalLineWins ==
    [][(pc = "parse" /\ HasLine(model_out, KwFinal))
        => /\ parsed.final # <<>>
           /\ parsed.action_name = <<>>
           /\ parsed.action_input = NoInput
           /\ pc' = "done"
           /\ result'.answer = parsed.final
           /\ executed' = executed]_vars
\* A line-anchored Final: with at least one non-blank character after it.
HasAnsweredFinalLine(text) ==
    \E i \in 1..Len(text) :
        /\ text[i] = KwFinal
        /\ AnchoredAt(text, i)
        /\ \E j \in (i + 1)..Len(text) : ~IsWs(text[j])
\* C4 amended: the same for every output whose line-anchored Final: is
\* followed by at least one non-blank character.
C4_AnsweredFinalLineWins ==
    [][(pc = "parse" /\ HasAnsweredFinalLine(model_out))
        => /\ parsed.final # <<>>
           /\ parsed.action_name = <<>>
           /\ parsed.action_input = NoInput
           /\ pc' = "done"
           /\ result'.answer = parsed.final
           /\ executed' = executed]_vars
\* run returned from a Final that came after an Action line.
C4_Witness ==
    /\ pc = "done"
    /\ parsed.final # <<>>
    /\ result.answer = parsed.final
    /\ \E i, j \in 1..Len(model_out) :
          /\ i < j
          /\ model_out[i] = KwAction /\ AnchoredAt(model_out, i)
          /\ model_out[j] = KwFinal /\ AnchoredAt(model_out, j)

\* C5 as stated: the answer run returns from a Final is the answer text only
\* and contains no Action / Action Input block.
C5_FinalHasNoActionBlock ==
    (pc = "done" /\ parsed.final # <<>>)
        => \A i \in 1..Len(result.answer) : result.answer[i] \notin {KwAction, KwInput}
\* C5 amended: the answer run returns from a Final is everything from the
\* first non-blank character after Final: to the end of the model output.
C5_FinalRunsToEndOfOutput ==
    (pc = "done" /\ parsed.final # <<>>)
        => LET k == Len(model_out) - Len(result.answer)
           IN  /\ k >= 1
               /\ result.answer = SubSeq(model_out, k + 1, Len(model_out))
               /\ ~IsWs(result.answer[1])
               /\ \E i \in 1..k :
                     /\ model_out[i] = KwFinal
                     /\ \A m \in (i + 1)..k : IsWs(model_out[m])
\* run returned a Final that carries the Action line written after it.
C5_Witness ==
    /\ pc = "done"
    /\ parsed.final # <<>>
    /\ result.answer[1] = "answer"
    /\ \E i \in 1..Len(result.answer) : result.answer[i] = KwAction

C7_ReturnsRawText ==
    [][(pc = "parse" /\ ~HasLine(llm_raw, KwFinal) /\ ~HasLine(llm_raw, KwAction))
        => /\ pc' = "done"
           /\ result' = [answer |-> llm_raw, history |-> history]
           /\ history' = history
           /\ executed' = executed]_vars
\* C7 amended: the answer is the model text without its leading and
\* trailing whitespace (empty for an empty or whitespace-only output).
C7_ReturnsStrippedText ==
    [][(pc = "parse" /\ ~HasLine(llm_raw, KwFinal) /\ ~HasLine(llm_raw, KwAction))
        => /\ pc' = "done"
           /\ result' = [answer |-> Strip(llm_raw), history |-> history]
           /\ history' = history
           /\ executed' = executed]_vars
\* A whitespace-only output ended a run that already had a history.
C7_Witness ==
    /\ pc = "done"
    /\ llm_raw # <<>>
    /\ \A i \in 1..Len(llm_raw) : IsWs(llm_raw[i])
    /\ result.answer = <<>>
    /\ result.history = history
    /\ history # <<>>

\* C8: when the LLM call exceeds llm_timeout_sec, _call_llm does not raise
\* but returns the failure string that names llm_timeout_sec, and the step
\* that gets this string dispatches no tool.
C8_TimeoutBecomesFailureString ==
    /\ [](pc # "raised")
    /\ [](timed_out =>
            llm_raw = <<"gen-failed:", SP, "LLM", SP, "call-timed-out(>",
                        ToString(llm_timeout_sec), "s)">>)
    /\ [][pc = "shutdown_wait" => (pc' = "shutdown_wait" \/ (pc' = "parse" /\ timed_out'))]_vars
    /\ [][(pc = "parse" /\ timed_out)
            => (executed' = executed /\ history' = history /\ pc' = "done")]_vars
\* A run ended on the timeout string after an earlier tool call.
C8_Witness ==
    /\ pc = "done"
    /\ timed_out
    /\ result.answer = TimeoutMsg(llm_timeout_sec)
    /\ executed # <<>>

\* C9 as stated: on timeout _call_llm returns at the deadline without
\* waiting for the worker's generate call, so run is never held back by a
\* worker that is still running after the deadline.
C9_ReturnsAtDeadline == ~(pc = "shutdown_wait" /\ worker = "running")

\* C10: an exception raised while a tool call executes never leaves run: it
\* becomes an observation with the error text in the history and the loop
\* goes on to the next step.
C10_ToolErrorsBecomeObservations ==
    /\ pc # "raised"
    /\ \A i \in 1..Len(executed) :
          executed[i].raised
            => /\ Contains(history, <<KwObservation, NL, "error=">> \o executed[i].err)
               /\ step > executed[i].step
               /\ tool_call_count >= i
\* The LLM is asked again after a call to an unregistered tool failed.
C10_Witness ==
    /\ pc = "llm_wait"
    /\ \E i \in 1..Len(executed) :
          /\ executed[i].raised
          /\ executed[i].name \notin RegisteredTools
          /\ Contains(prompt.history, executed[i].err)

\* s1 is a prefix of s2
IsPrefix(s1, s2) == Len(s1) <= Len(s2) /\ SubSeq(s2, 1, Len(s1)) = s1
\* The positions of the line-anchored keyword lines of a text.
LinesOf(text, kw) == {i \in 1..Len(text) : text[i] = kw /\ AnchoredAt(text, i)}
\* What new adds to old when old is its prefix, without the blank line that
\* separates it from a non-empty old.
AddedTo(old, new) ==
    IF old = <<>> THEN new ELSE SubSeq(new, Len(old) + 3, Len(new))
SeparatedFrom(old, new) ==
    old = <<>> \/ (Len(new) >= Len(old) + 2 /\ SubSeq(new, Len(old) + 1, Len(old) + 2) = <<NL, NL>>)
\* One step block: at most one Thought line, which is then the first line,
\* then one Action line, one Action Input line and one Observation line, in
\* that order.
IsOneBlock(b) ==
    LET t == LinesOf(b, KwThought)
        a == LinesOf(b, KwAction)
        n == LinesOf(b, KwInput)
        o == LinesOf(b, KwObservation)
    IN  /\ t \in {{}, {1}}
        /\ Cardinality(a) = 1 /\ Cardinality(n) = 1 /\ Cardinality(o) = 1
        /\ (t = {}) => a = {1}
        /\ \A i \in a, j \in n, k \in o : i < j /\ j < k
        /\ \A i \in a, j \in n : b[j - 1] = NL /\ \A m \in i..(j - 1) : b[m] = NL => m = j - 1
        /\ \A k \in o : b[k - 1] = NL

\* C11: within one run the history only grows.  The history in the prompt of
\* an LLM call has the history of the previous call's prompt as a prefix,
\* extended (after a blank line) by exactly one block of Thought if any,
\* Action, Action Input, Observation in that order; the block carries the
\* thought and the action name of the step that was handled, and a step
\* that changes the history changes it in this way only.
C11_HistoryGrowsByOneBlock ==
    /\ [][(pc = "loop" /\ pc' = "llm_wait" /\ step > 1)
            => /\ IsPrefix(prompt.history, prompt'.history)
               /\ SeparatedFrom(prompt.history, prompt'.history)
               /\ IsOneBlock(AddedTo(prompt.history, prompt'.history))]_vars
    /\ [][history' # history
            => /\ pc = "parse" /\ step' = step + 1
               /\ IsPrefix(history, history')
               /\ SeparatedFrom(history, history')
               /\ IsOneBlock(AddedTo(history, history'))
               /\ IsPrefix(IF parsed.thought # <<>>
                           THEN <<KwThought, SP>> \o parsed.thought \o <<NL, KwAction, SP>>
                                \o parsed.action_name \o <<NL>>
                           ELSE <<KwAction, SP>> \o parsed.action_name \o <<NL>>,
                           AddedTo(history, history'))]_vars
\* The third LLM call of a run sees two blocks, the first with a Thought.
C11_Witness ==
    /\ pc = "llm_wait"
    /\ step = 3
    /\ Cardinality(LinesOf(prompt.history, KwObservation)) = 2
    /\ prompt.history[1] = KwThought
    /\ prompt.history = history

\* The code-fence markers a model may write before the JSON text.
FenceMarkers == {"fence_json", "fence"}
\* The position of the opening brace of a JSON object that follows the first
\* Action Input: line after whitespace and at most one code-fence marker; 0
\* when what follows is no such object.
ObjectStart(text) ==
    LET i == FirstIn(LinesOf(text, KwInput))
        a == IF i = 0 THEN 0 ELSE SkipWs(text, i + 1)
        s == IF a # 0 /\ At(text, a) \in FenceMarkers THEN SkipWs(text, a + 1) ELSE a
    IN  IF s # 0 /\ At(text, s) = "{" /\ ParseValue(text, s) # 0 THEN s ELSE 0
\* The members of the JSON object that starts at s.
ObjectAt(text, s) == JsonLoads(SubSeq(text, s, ParseValue(text, s) - 1)).dict

\* C12: for every model output without a Final line in which Action Input:
\* is followed, possibly after line breaks or a code-fence marker, by a
\* balanced JSON object, parse_react gives that object as action_input:
\* brackets inside string literals and escaped quotes do not end it, line
\* breaks inside it do not matter, and what follows it is ignored.
C12_ObjectAfterActionInputIsParsed ==
    (pc = "parse" /\ ~HasLine(model_out, KwFinal) /\ ObjectStart(model_out) # 0)
        => parsed.action_input =
              [none |-> FALSE, dict |-> ObjectAt(model_out, ObjectStart(model_out))]
\* An object whose string holds an escaped quote, a closing brace and an
\* escaped backslash was parsed whole.
C12_Witness ==
    /\ pc = "parse"
    /\ ObjectStart(model_out) # 0
    /\ parsed.action_name = <<"rag_search">>
    /\ parsed.action_input =
          [none |-> FALSE,
           dict |-> <<(<<Str("query"), <<QUOTE, "a", BSL, QUOTE, "}", BSL, BSL, QUOTE>>>>)>>]

\* A JSON object starts at the first bracket after the first Action Input:
\* line.
HasObjectInput(text) ==
    LET i == FirstIn(LinesOf(text, KwInput))
        s == IF i = 0 THEN 0 ELSE FirstIn({j \in (i + 1)..Len(text) : text[j] \in {"{", "["}})
    IN  s # 0 /\ text[s] = "{" /\ ParseValue(text, s) # 0
OnlyDefaultTopk == <<(<<Str("topk"), <<ToString(default_topk)>>>>)>>

\* C13: when an Action is present and the Action Input is absent,
\* unparseable, unbalanced or a JSON value that is no object, action_input
\* is None and, the tool-call budget not being used up, the tool is
\* dispatched with an argument mapping that holds the default topk only.
C13_NoObjectMeansDefaultArguments ==
    [][(/\ pc = "parse"
        /\ parsed.final = <<>>
        /\ parsed.action_name # <<>>
        /\ ~HasObjectInput(model_out)
        /\ Len(executed) < max_tool_calls)
        => /\ parsed.action_input = NoInput
           /\ Len(executed') = Len(executed) + 1
           /\ executed'[Len(executed')].name = parsed.action_name
           /\ executed'[Len(executed')].args = OnlyDefaultTopk]_vars
\* After a call with the default topk only, an Action whose input is an
\* array waits to be dispatched.
C13_Witness ==
    /\ pc = "parse"
    /\ parsed.action_name # <<>>
    /\ HasLine(model_out, KwInput)
    /\ \E j \in 1..Len(model_out) : model_out[j] = "["
    /\ ~HasObjectInput(model_out)
    /\ Len(executed) = 1
    /\ Len(executed) < max_tool_calls
    /\ executed[1].args = OnlyDefaultTopk

\* The first tool registered under a stripped name.
FirstRegistered(name) ==
    register_calls[FirstIn({i \in 1..Len(register_calls) :
                              Strip(register_calls[i].tool.name) = name})].tool

\* C14: registering a tool whose stripped name is already registered raises
\* and leaves the registry unchanged; after any sequence of register calls
\* each registered name maps to the first tool registered under it.
C14_DuplicateNameFails ==
    /\ [][register_calls' # register_calls
            => LET c == register_calls'[Len(register_calls')]
               IN  Strip(c.tool.name) \in DOMAIN tools => (c.raised /\ tools' = tools)]_vars
    /\ [](\A n \in DOMAIN tools : tools[n] = FirstRegistered(n))
    /\ [](\A i \in 1..Len(register_calls) :
            Strip(register_calls[i].tool.name) # <<>>
                => Strip(register_calls[i].tool.name) \in DOMAIN tools)
\* A second tool whose name differs from the first only by a blank was
\* refused, and the name still maps to the first.
C14_Witness ==
    /\ Len(register_calls) = 2
    /\ register_calls[1].tool = [name |-> NameRag, id |-> 1]
    /\ register_calls[2].tool = [name |-> <<SP>> \o NameRag, id |-> 2]
    /\ register_calls[2].raised
    /\ tools[NameRag].id = 1

\* The call of the worked example has returned.
ExampleReturned == call = ExampleCall /\ ret.fn = "rrf_fuse"

\* C15 as stated: for BM25 [(1,A,10),(2,B,8),(3,C,5)] and vector
\* [(3,C,0.1),(1,A,0.2),(4,D,0.3)], k=60 and both weights 1.0, rrf_fuse
\* returns C, A, B, D.
C15_ExampleOrderCABD == ExampleReturned => ret.fused = <<ItemC, ItemA, ItemB, ItemD>>
\* C15 amended: for these inputs rrf_fuse returns A, C, B, D (A is first by
\* BM25 score and second by distance, C third and first).
C15_ExampleOrderACBD == ExampleReturned => ret.fused = <<ItemA, ItemC, ItemB, ItemD>>
\* The example call has returned its four items.
C15_Witness == ExampleReturned /\ Len(ret.fused) = 4

\* The keys of a sequence of items.
KeysOf(items) == [i \in 1..Len(items) |-> item_key(items[i])]

\* C16 as stated: with equal weights, fusing with X as the BM25 ranking and
\* Y as the vector ranking returns the same item order as fusing with Y as
\* the BM25 ranking and X as the vector ranking, ties on the fused score
\* included.
C16_SwapGivesSameOrder ==
    (ret.fn = "rrf_fuse_swapped" /\ call.bm25_weight = call.emb_weight)
        => KeysOf(ret.swapped) = KeysOf(ret.fused)

\* The dedup key as the claim words it: the id if present, else the doc_id,
\* else the full text.
DedupKey(item) ==
    CASE item.id # "" -> <<"id", item.id>>
      [] item.id = "" /\ item.doc_id # "" -> <<"doc_id", item.doc_id>>
      [] OTHER -> <<"text", item.text>>
\* The results of the call as one set of <<list, position>> pairs, and the
\* fused score of a key: the sum of weight / (k + rank) over its results.
CallKeys == {DedupKey(call.bm25_list[i][2]) : i \in 1..Len(call.bm25_list)}
            \cup {DedupKey(call.emb_list[i][2]) : i \in 1..Len(call.emb_list)}
FusedScore(key) ==
    LET n == Max(Len(call.bm25_list), Len(call.emb_list))
    IN  KeyScore(bm25_sorted(call.bm25_list), key, call.bm25_weight, call.k, n)
        + KeyScore(emb_sorted(call.emb_list), key, call.emb_weight, call.k, n)

\* C17: rrf_fuse returns at most top_k items, the min(top_k, number of keys)
\* best ones, in non-increasing order of fused score; no two returned items
\* have the same dedup key, and a key found in both lists is returned once,
\* ranked by the sum of its contributions.
C17_TopKDistinctByScore ==
    ret.fn = "rrf_fuse"
        => /\ Len(ret.fused) <= call.top_k
           /\ Len(ret.fused) = Min(call.top_k, Cardinality(CallKeys))
           /\ \A i, j \in 1..Len(ret.fused) :
                 /\ i # j => DedupKey(ret.fused[i]) # DedupKey(ret.fused[j])
                 /\ i < j => FusedScore(DedupKey(ret.fused[i]))
                                >= FusedScore(DedupKey(ret.fused[j]))
           /\ \A i \in 1..Len(ret.fused) :
                 /\ DedupKey(ret.fused[i]) \in CallKeys
                 /\ \A key \in CallKeys \ {DedupKey(ret.fused[m]) : m \in 1..Len(ret.fused)} :
                       FusedScore(key) <= FusedScore(DedupKey(ret.fused[i]))
\* Three keys, one of them found in both lists under two texts, cut to the
\* best two; the key found twice comes first.
C17_Witness ==
    /\ ret.fn = "rrf_fuse"
    /\ call.top_k = 2
    /\ Cardinality(CallKeys) = 3
    /\ \E i \in 1..Len(call.bm25_list), j \in 1..Len(call.emb_list) :
          call.bm25_list[i][2] = ItemA /\ call.emb_list[j][2] = ItemE
    /\ Len(ret.fused) = 2
    /\ ret.fused[1] = ItemA


\* C18: whatever top_n and recall_k a search is called with (recall_k
\* omitted, zero, negative or smaller than top_n), the recall_k handed to
\* every recall call and to fusion is at least the top_n in use, which is at
\* least 1 and is the top_n handed to the ranker.
C18_RecallKAtLeastTopN ==
    ret.fn \in {"Searcher.search_advanced", "MultiDBSearcher.search_advanced"}
    => /\ ret.top_n >= 1
       /\ ret.top_n >= call.top_n
       /\ \A i \in 1..Len(ret.recall_ks) : ret.recall_ks[i] >= ret.top_n
       /\ \A i \in 1..Len(ret.fuse_top_k) : ret.fuse_top_k[i] >= ret.top_n
       /\ \A i \in 1..Len(ret.rank_top_n) : ret.rank_top_n[i] = ret.top_n
\* A search asked for two or more results with a recall_k below that made
\* both recall calls and fused.
C18_Witness ==
    /\ ret.fn = "Searcher.search_advanced"
    /\ ~ret.raised
    /\ call.top_n >= 2
    /\ call.recall_k # <<>>
    /\ call.recall_k[1] < call.top_n
    /\ Len(ret.recall_ks) = 2
    /\ ret.fuse_top_k # <<>>

\* The smallest whole number of at least a / b.
CeilDiv(a, b) == CHOOSE c \in 0..a : c * b >= a /\ (c - 1) * b < a
\* The hits of one kind that database n contributed to a recalled list.
HitsFrom(list, n) ==
    LET FromN(h) == h[2] = n
    IN  SelectSeq(list, FromN)
\* The list holds, in database order, nothing of a database whose search
\* raised and the first k hits of every other database.
RecalledInOrder(list, kind, k) ==
    /\ \A i, j \in 1..Len(list) : i < j => list[i][2] <= list[j][2]
    /\ \A n \in 1..Len(call.dbs) :
          HitsFrom(list, n) = IF call.dbs[n][kind] = "raise" THEN <<>>
                              ELSE [j \in 1..Min(k, MaxHits) |-> <<kind, n, j>>]
\* C19: a multi-database recall over N databases (the embedding of the
\* query succeeding) returns whichever database searches raise; every
\* database is searched, BM25 and vector, with k = ceil(recall_k / N); each
\* returned list holds nothing of a database whose search raised and the
\* hits of every other database, in database order.
C19_MultiDbRecallSurvivesFailures ==
    (/\ ret.fn = "MultiDBSearcher.search_advanced"
     /\ call.embed = "ok")
    => LET N == Len(call.dbs)
           k == CeilDiv(ret.recall_ks[1], N)
       IN  /\ ~ret.raised
           /\ Len(ret.recalled.bm25_ks) = N
           /\ Len(ret.recalled.emb_ks) = N
           /\ \A n \in 1..N : ret.recalled.bm25_ks[n] = k /\ ret.recalled.emb_ks[n] = k
           /\ N >= 1 => /\ RecalledInOrder(ret.recalled.bm25_list, "bm25", k)
                        /\ RecalledInOrder(ret.recalled.emb_list, "emb", k)
\* Three databases share a recall_k that does not divide by three; the BM25
\* search of the first and the vector search of the second raise, and the
\* third contributes to both lists.
C19_Witness ==
    /\ ret.fn = "MultiDBSearcher.search_advanced"
    /\ ~ret.raised
    /\ Len(call.dbs) = 3
    /\ ret.recall_ks[1] % 3 # 0
    /\ call.dbs[1].bm25 = "raise"
    /\ call.dbs[2].emb = "raise"
    /\ HitsFrom(ret.recalled.bm25_list, 1) = <<>>
    /\ HitsFrom(ret.recalled.bm25_list, 3) # <<>>
    /\ HitsFrom(ret.recalled.emb_list, 2) = <<>>
    /\ HitsFrom(ret.recalled.emb_list, 3) # <<>>

\* C20: in the chunk list of one database, built from any list of dict and
\* plain-string items, no two chunks have the same id (the same doc_id and
\* chunk_index).
C20_ChunkIdsUnique ==
    ret.fn = "build"
    => \A i, j \in 1..Len(ret.chunk_list) :
          i # j => ret.chunk_list[i].id # ret.chunk_list[j].id

\* C21: every passage chunk_doc_item or process_doc_item emits, for a law
\* document or any other, has a text that is not empty and has at least
\* min_chunk_len characters.
C21_PassagesLongEnough ==
    ret.fn \in {"chunk_doc_item", "build"}
    => \A i \in 1..Len(ret.chunk_list) :
          /\ ret.chunk_list[i].text # <<>>
          /\ Len(ret.chunk_list[i].text) >= call.min_chunk_len
\* Law merging made one passage that is long enough out of sentences that
\* are each too short, and it is emitted.
C21_Witness ==
    /\ ret.fn = "chunk_doc_item"
    /\ call.doc_item.kind = "dict"
    /\ is_law_doc(meta_of(call.doc_item))
    /\ call.min_chunk_len = 8
    /\ Len(ret.chunk_list) = 1
    /\ Len(ret.merged) = 1
    /\ \A i \in 1..Len(call.doc_item.text) : Len(call.doc_item.text[i]) < 8

\* The chunks of the documents in the order of the documents.
RECURSIVE InDocumentOrder(_, _)
InDocumentOrder(docs, min_chunk_len) ==
    IF docs = <<>> THEN <<>>
    ELSE (IF ChunkingRaises(Head(docs)) THEN <<>>
          ELSE process_doc_item(Head(docs), min_chunk_len))
         \o InDocumentOrder(Tail(docs), min_chunk_len)
ChunkIds(chunk_list) == [i \in 1..Len(chunk_list) |-> chunk_list[i].id]
\* C22: the chunk list a build writes and indexes is determined by the
\* documents and the configuration, whatever order the workers finish in:
\* it is the list of the chunk ids in document order.
C22_ChunkListDetermined ==
    (ret.fn = "build" /\ ret.stage = "saved")
    => ChunkIds(ret.chunk_list) = ChunkIds(InDocumentOrder(call.docs, call.min_chunk_len))

\* C24: when chunking a document raises, the build stops with an error and
\* no index is built or saved from the other documents.
C24_ChunkingErrorAbortsBuild ==
    (ret.fn = "build" /\ ret.logged # {}) => ret.stage # "saved"

\* C25: a build whose chunking and filtering leave no passage raises the
\* error that names min_chunk_len, and builds and saves neither index.
C25_NoPassagesFailsBuild ==
    (ret.fn = "build" /\ ret.outcome # <<>> /\ ret.chunk_list = <<>>)
    => /\ ret.stage = "raised"
       /\ Contains(ret.outcome[1].error, <<"min_chunk_len">>)
       /\ ret.outcome[1].bm25_index = <<>>
       /\ ret.outcome[1].emb_index = <<>>
       /\ ~ret.outcome[1].saved
\* A build of documents with text whose sentences are all shorter than
\* min_chunk_len has raised.
C25_Witness ==
    /\ ret.fn = "build"
    /\ ret.stage = "raised"
    /\ call.min_chunk_len = 2
    /\ Len(call.docs) = 2
    /\ \A d \in 1..2 : call.docs[d].kind # "bad" /\ call.docs[d].text # <<>>

\* _RE_LAW_ENUM: after leading blanks, an opening bracket, numerals and a
\* closing bracket.
StartsWithEnum(text) ==
    LET t == Strip(text)
    IN  \E n \in 3..Len(t) :
           /\ t[1] \in {"fw_lparen", "("}
           /\ t[n] \in {"fw_rparen", ")"}
           /\ \A i \in 2..(n - 1) : t[i] \in {"cn_one", "1"}
\* The passages law merging returned for a law document.
LawMerged ==
    /\ ret.fn = "chunk_doc_item"
    /\ ret.stage = "returned"
    /\ is_law_doc(meta_of(call.doc_item))
\* C23: for a law document no passage that law merging returns starts with
\* an enumeration item: the items are in the passage of their introducer.
C23_NoEnumItemAlone ==
    LawMerged => \A i \in 1..Len(ret.merged) : ~StartsWithEnum(ret.merged[i])

\* C30: no passage that law merging returns is longer than max_chars, the
\* sentence_size of the splitter.
C30_MergedWithinMaxChars ==
    LawMerged => \A i \in 1..Len(ret.merged) : Len(ret.merged[i]) <= Max(1, call.sentence_size)

\* C26: for every list of reranked passages the formatter makes one context
\* entry and one citation line per passage, numbered 1..n in rank order: as
\* many citation lines as context entries as passages.
C26_OneEntryAndOneCitationPerPassage ==
    ret.fn \in {"build_context_and_citations", "TinyRAG.search"}
    => /\ Len(ret.cite_lines) = Len(call.chunks)
       /\ Len(ret.context_lines) = Len(call.chunks)
       /\ ret.context = JoinLines(ret.context_lines)
       /\ \A i \in 1..Len(call.chunks) :
             /\ IsPrefix(<<"[", ToString(i), "]", SP>>, ret.cite_lines[i])
             /\ IsPrefix(<<"[", ToString(i), "]", SP>>, ret.context_lines[i])
             /\ EndsWith(ret.context_lines[i], Strip(call.chunks[i].text))
\* Two passages, the first without a source and the second with one, each
\* have their citation line.
C26_Witness ==
    /\ ret.fn = "build_context_and_citations"
    /\ Len(call.chunks) = 2
    /\ call.chunks[1].kind = "other"
    /\ call.chunks[2].kind = "dict"
    /\ call.chunks[2].meta.source_path # ""
    /\ Len(ret.cite_lines) = 2

\* C27: a passage with law meta always gets the law line as its citation,
\* and the unknown-source fallback is used only when no other rule matches
\* (no law, no case, no url, no source path).
C27_LawLineFirstFallbackLast ==
    ret.fn = "build_context_and_citations"
    => \A i \in 1..Len(call.chunks) :
          call.chunks[i].kind = "dict"
          => LET meta == call.chunks[i].meta
             IN  /\ IsLawMeta(meta)
                    => Contains(ret.cite_lines[i], format_law_location(meta))
                 /\ ret.cite_lines[i] = Numbered(i, UnknownSource)
                    => /\ ~IsLawMeta(meta)
                       /\ ~is_case_chunk(meta)
                       /\ meta.url = ""
                       /\ meta.source_path = ""

\* C28: every rag_search call with a non-empty query and a usable topk,
\* db_name absent or set, runs a retrieval: it returns a result, or fails
\* only because the retrieval itself failed.
C28_DbNameIsOptional ==
    \A i \in 1..Len(executed) :
       (/\ executed[i].name = NameRag
        /\ ArgText(executed[i].args, "query") # <<>>
        /\ TopkIsInt(executed[i].args))
       => (executed[i].raised => executed[i].err = <<"search", SP, "failed">>)

\* C29: a dispatched tool call that fails (the tool raises, the name is not
\* registered, the arguments are rejected) counts against the budget like
\* one that returns: the count is the number of dispatch attempts, and once
\* max_tool_calls attempts were made, failed ones among them, the next
\* Action gets the budget-exhausted observation and no tool is called.
C29_FailedCallsConsumeBudget ==
    /\ [](tool_call_count = Len(executed))
    /\ [][(/\ ActionRequested
           /\ Len(executed) = max_tool_calls
           /\ \E i \in 1..Len(executed) : executed[i].raised)
          => /\ executed' = executed
             /\ tool_call_count' = tool_call_count
             /\ EndsWith(history', BudgetObservation)]_vars
\* With a budget of one, the one call dispatched went to a tool that is not
\* registered and failed; the next Action was answered with the
\* budget-exhausted observation and the LLM is asked again.
C29_Witness ==
    /\ pc = "llm_wait"
    /\ max_tool_calls = 1
    /\ Len(executed) = 1
    /\ executed[1].raised
    /\ executed[1].name \notin RegisteredTools
    /\ tool_call_count = 1
    /\ EndsWith(prompt.history, BudgetObservation)
====
